---- MODULE Spec2Model ----
(***************************************************************************)
(* Model of the search-initializer lambda: the execution-name builder      *)
(* (utils.py), the request normalizer (request_parser.py), the             *)
(* configuration provider (config.py), the workflow dispatcher             *)
(* (stepfunctions_client.py) and the entry point (lambda_handler.py).      *)
(*                                                                         *)
(* A Python str is a sequence of code points (integers); bytes are a       *)
(* sequence of integers 0..255.                                            *)
(***************************************************************************)
EXTENDS Integers, Sequences, FiniteSets, TLC

VARIABLES
    name_args,      \* utils: arguments of build_execution_name
    name_ret,       \* utils: its return value, NoCall before the call
    parse_in,       \* request_parser: the event given to parse_event
    parse_ret,      \* request_parser: what parse_event did, NoCall before the call
    uuids,          \* the values uuid.uuid4() has returned in this process
    environ,        \* os.environ of the process
    exec_ret,       \* stepfunctions_client: what start_execution did, NoCall before
    client_calls,   \* stepfunctions_client: the calls made on the boto3 client
    STATE_MACHINE_ARN,       \* lambda_handler: the module's global, read at import
    searchOutputCollection,  \* lambda_handler: the documents of the collection
    executions,     \* lambda_handler: the executions the workflow service started
    handler_event,  \* lambda_handler: the event of the last invocation
    response,       \* lambda_handler: what the last invocation returned
    effects,        \* lambda_handler: the external calls of the last invocation
    invocations     \* lambda_handler: the number of invocations so far

nameVars == <<name_args, name_ret>>
parseVars == <<parse_in, parse_ret>>
execVars == <<exec_ret, client_calls>>
handlerVars ==
    <<STATE_MACHINE_ARN, searchOutputCollection, executions, handler_event, response,
      effects, invocations>>
vars == <<nameVars, parseVars, uuids, environ, execVars, handlerVars>>

(***************************************************************************)
(* Text                                                                    *)
(***************************************************************************)

\* The printable ASCII characters, code points 32..126, in order (code point
\* 96 is held by a placeholder no text of the model uses).
Ascii ==
    <<" ", "!", "\"", "#", "$", "%", "&", "'", "(", ")", "*", "+", ",", "-", ".", "/",
      "0", "1", "2", "3", "4", "5", "6", "7", "8", "9", ":", ";", "<", "=", ">", "?",
      "@", "A", "B", "C", "D", "E", "F", "G", "H", "I", "J", "K", "L", "M", "N", "O",
      "P", "Q", "R", "S", "T", "U", "V", "W", "X", "Y", "Z", "[", "\\", "]", "^", "_",
      "BACKTICK", "a", "b", "c", "d", "e", "f", "g", "h", "i", "j", "k", "l", "m", "n", "o",
      "p", "q", "r", "s", "t", "u", "v", "w", "x", "y", "z", "{", "|", "}", "~">>

\* The code point of a printable ASCII character.
Ord(c) == 31 + (CHOOSE i \in 1..Len(Ascii) : Ascii[i] = c)

\* The str whose characters are the given printable ASCII characters.
T(cs) == [i \in 1..Len(cs) |-> Ord(cs[i])]

\* s[:n]
Take(s, n) == SubSeq(s, 1, IF Len(s) < n THEN Len(s) ELSE n)

\* The code points of the model's alphabet for which str.isalnum() is true:
\* ASCII digits and letters, and beyond ASCII U+00E9 (a letter), U+0663 (a
\* decimal digit) and U+00B2 (a numeric superscript).
IsAlnum(c) ==
    \/ c \in 48..57
    \/ c \in 65..90
    \/ c \in 97..122
    \/ c \in {233, 1635, 178}

\* [A-Za-z0-9_-]
IsNameChar(c) ==
    \/ c \in 48..57
    \/ c \in 65..90
    \/ c \in 97..122
    \/ c \in {45, 95}

\* The concatenation of a sequence of sequences.
RECURSIVE Flatten(_)
Flatten(seqs) ==
    IF Len(seqs) = 0 THEN <<>>
    ELSE IF Len(seqs) = 1 THEN seqs[1]
    ELSE LET h == Len(seqs) \div 2
         IN  Flatten(SubSeq(seqs, 1, h)) \o Flatten(SubSeq(seqs, h + 1, Len(seqs)))

NoCall == [called |-> FALSE]

(***************************************************************************)
(* Python values that JSON carries.  Every value is a record of one shape: *)
(* t is the type, s the characters of a str (or the one number of an int   *)
(* or bool), o the items of a dict, in insertion order, as <<key, value>>  *)
(* pairs (the elements of a list are held the same way under empty keys).  *)
(***************************************************************************)

JNull == [t |-> "null", s |-> <<>>, o |-> <<>>]
JBool(b) == [t |-> "bool", s |-> <<IF b THEN 1 ELSE 0>>, o |-> <<>>]
JInt(n) == [t |-> "int", s |-> <<n>>, o |-> <<>>]
JStr(str) == [t |-> "str", s |-> str, o |-> <<>>]
JObj(pairs) == [t |-> "obj", s |-> <<>>, o |-> pairs]
JList(items) == [t |-> "list", s |-> <<>>, o |-> [i \in 1..Len(items) |-> <<<<>>, items[i]>>]]

\* key in d
HasKey(d, key) == \E i \in 1..Len(d.o) : d.o[i][1] = key

\* d[key], for a key that d has
Lookup(d, key) == d.o[CHOOSE i \in 1..Len(d.o) : d.o[i][1] = key][2]

\* d.get(key, default)
Get(d, key, default) == IF HasKey(d, key) THEN Lookup(d, key) ELSE default

\* d[key] = value: an existing key keeps its place, a new key is appended
SetItem(d, key, value) ==
    IF HasKey(d, key)
    THEN JObj([i \in 1..Len(d.o) |->
                  IF d.o[i][1] = key THEN <<key, value>> ELSE d.o[i]])
    ELSE JObj(Append(d.o, <<key, value>>))

\* {**a, **b}, for dicts a and b
\* (the items of b written into a one by one, in b's order)
RECURSIVE MergeFrom(_, _, _)
MergeFrom(a, b, i) ==
    IF i > Len(b.o) THEN a
    ELSE MergeFrom(SetItem(a, b.o[i][1], b.o[i][2]), b, i + 1)

\* bool(v)
Truthy(v) ==
    CASE v.t = "null" -> FALSE
      [] v.t = "bool" -> v.s[1] = 1
      [] v.t = "int"  -> v.s[1] # 0
      [] v.t = "str"  -> v.s # <<>>
      [] OTHER        -> v.o # <<>>

\* The characters str.strip() removes, within the model's alphabet: space, \t,
\* \n, \r and U+00A0.
IsPySpace(c) == c \in {32, 9, 10, 13, 160}

RECURSIVE LStrip(_)
LStrip(str) ==
    IF str # <<>> /\ IsPySpace(Head(str)) THEN LStrip(Tail(str)) ELSE str

RECURSIVE RStrip(_)
RStrip(str) ==
    IF str # <<>> /\ IsPySpace(str[Len(str)])
    THEN RStrip(SubSeq(str, 1, Len(str) - 1))
    ELSE str

\* str.strip()
Strip(str) == RStrip(LStrip(str))

\* The decimal digits of a natural number.
RECURSIVE Digits(_)
Digits(n) ==
    IF n < 10 THEN <<48 + n>> ELSE Append(Digits(n \div 10), 48 + (n % 10))

(***************************************************************************)
(* json.loads and json.dumps, for the JSON the model's texts are written   *)
(* in: objects, arrays, strings (with the escapes \" \\ \/ \b \f \n \r \t  *)
(* \uXXXX), true, false, null and the natural numbers.                     *)
(***************************************************************************)

ScanFail(m, i) == [ok |-> FALSE, v |-> JNull, i |-> i, m |-> m]
Scanned(v, i) == [ok |-> TRUE, v |-> v, i |-> i, m |-> ""]

\* The first index from i on that holds no JSON whitespace.
RECURSIVE SkipWs(_, _)
SkipWs(str, i) ==
    IF i <= Len(str) /\ str[i] \in {32, 9, 10, 13} THEN SkipWs(str, i + 1) ELSE i

StartsWith(str, i, w) ==
    i + Len(w) - 1 <= Len(str) /\ SubSeq(str, i, i + Len(w) - 1) = w

IsHex(c) == c \in 48..57 \/ c \in 97..102 \/ c \in 65..70
HexVal(c) == IF c \in 48..57 THEN c - 48 ELSE IF c \in 97..102 THEN c - 87 ELSE c - 55
HexDigit(n) == IF n < 10 THEN 48 + n ELSE 87 + n

\* The character a one-letter escape stands for, 0 when it is none.
Unescape(c) ==
    CASE c = 34  -> 34
      [] c = 92  -> 92
      [] c = 47  -> 47
      [] c = 98  -> 8
      [] c = 102 -> 12
      [] c = 110 -> 10
      [] c = 114 -> 13
      [] c = 116 -> 9
      [] OTHER   -> 0

\* The least and the greatest member of a non-empty set of integers.
SetMin(S) == CHOOSE m \in S : \A n \in S : m <= n
SetMax(S) == CHOOSE m \in S : \A n \in S : n <= m

\* The number of backslashes in a row that end at index k, counted from index
\* i on.
BackslashRun(str, i, k) == k - SetMax({i - 1} \cup {j \in i..k : str[j] # 92})

\* In a string literal whose characters start at index i: the character at k
\* follows the backslash of an escape; it is the backslash of an escape; it is
\* one of the four digits of a \uXXXX escape.
Escaped(str, i, k) ==
    k > i /\ str[k - 1] = 92 /\ BackslashRun(str, i, k - 1) % 2 = 1
EscapeAt(str, i, k) == str[k] = 92 /\ ~Escaped(str, i, k)
InHex(str, i, k) ==
    \E d \in 2..5 : k - d >= i /\ str[k - d + 1] = 117 /\ EscapeAt(str, i, k - d)

\* The message of the error the scanner raises when it reaches index k of the
\* literal, "" where it raises none.
CharError(str, i, k) ==
    IF EscapeAt(str, i, k)
    THEN IF k + 1 > Len(str) THEN "Unterminated string starting at"
         ELSE IF str[k + 1] = 117
              THEN IF k + 5 <= Len(str) /\ \A d \in 2..5 : IsHex(str[k + d])
                   THEN "" ELSE "Invalid \\uXXXX escape"
         ELSE IF Unescape(str[k + 1]) = 0 THEN "Invalid \\escape" ELSE ""
    ELSE IF str[k] < 32 THEN "Invalid control character at" ELSE ""

\* The characters the literal contributes at index k.
CharAt(str, i, k) ==
    IF EscapeAt(str, i, k)
    THEN IF str[k + 1] = 117
         THEN <<HexVal(str[k + 2]) * 4096 + HexVal(str[k + 3]) * 256
                + HexVal(str[k + 4]) * 16 + HexVal(str[k + 5])>>
         ELSE <<Unescape(str[k + 1])>>
    ELSE IF Escaped(str, i, k) \/ InHex(str, i, k) THEN <<>>
    ELSE <<str[k]>>

\* The string literal whose opening quote is at index q: its characters run to
\* the first quote that no backslash escapes, and the first error on the way
\* is the one raised.
ScanString(str, q) ==
    LET Failed(k) ==
            ScanFail(CharError(str, q + 1, k),
                     IF CharError(str, q + 1, k) = "Unterminated string starting at" THEN q
                     ELSE IF CharError(str, q + 1, k) = "Invalid \\uXXXX escape" THEN k + 1
                     ELSE k)
        Closed(e, errors) ==
            IF errors # {} THEN Failed(SetMin(errors))
            ELSE IF e > Len(str) THEN ScanFail("Unterminated string starting at", q)
            ELSE Scanned(JStr(Flatten([n \in 1..(e - q - 1) |-> CharAt(str, q + 1, q + n)])),
                         e + 1)
        Upto(e) == Closed(e, {k \in (q + 1)..(e - 1) : CharError(str, q + 1, k) # ""})
    IN  Upto(SetMin({Len(str) + 1}
                    \cup {j \in (q + 1)..Len(str) :
                             str[j] = 34 /\ ~Escaped(str, q + 1, j)}))

RECURSIVE DigitsEnd(_, _)
DigitsEnd(str, i) ==
    IF i <= Len(str) /\ str[i] \in 48..57 THEN DigitsEnd(str, i + 1) ELSE i

RECURSIVE NatOf(_)
NatOf(ds) ==
    IF ds = <<>> THEN 0
    ELSE 10 * NatOf(SubSeq(ds, 1, Len(ds) - 1)) + (ds[Len(ds)] - 48)

ScanNumber(str, i) ==
    LET e == IF str[i] = 48 THEN i + 1 ELSE DigitsEnd(str, i)
    IN  Scanned(JInt(NatOf(SubSeq(str, i, e - 1))), e)

RECURSIVE ScanValue(_, _)
RECURSIVE ScanMembers(_, _, _)
RECURSIVE ScanElements(_, _, _)

\* The value that starts at index i.
ScanValue(str, i) ==
    LET Object(j) ==
            IF j <= Len(str) /\ str[j] = 125
            THEN Scanned(JObj(<<>>), j + 1)
            ELSE ScanMembers(str, j, JObj(<<>>))
        Array(j) ==
            IF j <= Len(str) /\ str[j] = 93
            THEN Scanned(JList(<<>>), j + 1)
            ELSE ScanElements(str, j, <<>>)
    IN  IF i > Len(str) THEN ScanFail("Expecting value", i)
        ELSE IF str[i] = 34 THEN ScanString(str, i)
        ELSE IF str[i] = 123 THEN Object(SkipWs(str, i + 1))
        ELSE IF str[i] = 91 THEN Array(SkipWs(str, i + 1))
        ELSE IF StartsWith(str, i, <<110, 117, 108, 108>>) THEN Scanned(JNull, i + 4)
        ELSE IF StartsWith(str, i, <<116, 114, 117, 101>>) THEN Scanned(JBool(TRUE), i + 4)
        ELSE IF StartsWith(str, i, <<102, 97, 108, 115, 101>>)
        THEN Scanned(JBool(FALSE), i + 5)
        ELSE IF str[i] \in 48..57 THEN ScanNumber(str, i)
        ELSE ScanFail("Expecting value", i)

\* The members of an object from index i, the quote of the next key; a key
\* given twice keeps its first place and its last value.  Each step is a local
\* operator that takes what the step before it scanned.
ScanMembers(str, i, d) ==
    LET AfterMember(d2, e) ==
            IF e <= Len(str) /\ str[e] = 125 THEN Scanned(d2, e + 1)
            ELSE IF e <= Len(str) /\ str[e] = 44
            THEN ScanMembers(str, SkipWs(str, e + 1), d2)
            ELSE ScanFail("Expecting ',' delimiter", e)
        AfterValue(k, v) ==
            IF ~v.ok THEN v ELSE AfterMember(SetItem(d, k.v.s, v.v), SkipWs(str, v.i))
        AfterKeyAt(k, c) ==
            IF c > Len(str) \/ str[c] # 58
            THEN ScanFail("Expecting ':' delimiter", c)
            ELSE AfterValue(k, ScanValue(str, SkipWs(str, c + 1)))
        AfterKey(k) == IF ~k.ok THEN k ELSE AfterKeyAt(k, SkipWs(str, k.i))
    IN  IF i > Len(str) \/ str[i] # 34
        THEN ScanFail("Expecting property name enclosed in double quotes", i)
        ELSE AfterKey(ScanString(str, i))

\* The elements of an array from index i, the start of the next element.
ScanElements(str, i, items) ==
    LET AfterElement(v, e) ==
            IF e <= Len(str) /\ str[e] = 93
            THEN Scanned(JList(Append(items, v.v)), e + 1)
            ELSE IF e <= Len(str) /\ str[e] = 44
            THEN ScanElements(str, SkipWs(str, e + 1), Append(items, v.v))
            ELSE ScanFail("Expecting ',' delimiter", e)
        Element(v) == IF ~v.ok THEN v ELSE AfterElement(v, SkipWs(str, v.i))
    IN  Element(ScanValue(str, i))

JSONDecodeErrorTexts ==
    [m \in {"Expecting value", "Expecting property name enclosed in double quotes",
            "Expecting ':' delimiter", "Expecting ',' delimiter",
            "Unterminated string starting at", "Invalid control character at",
            "Invalid \\uXXXX escape", "Invalid \\escape", "Extra data"} |->
       CASE m = "Expecting value" ->
            T(<<"E", "x", "p", "e", "c", "t", "i", "n", "g", " ", "v", "a", "l", "u",
                "e">>)
         [] m = "Expecting property name enclosed in double quotes" ->
            T(<<"E", "x", "p", "e", "c", "t", "i", "n", "g", " ", "p", "r", "o", "p",
                "e", "r", "t", "y", " ", "n", "a", "m", "e", " ", "e", "n", "c", "l",
                "o", "s", "e", "d", " ", "i", "n", " ", "d", "o", "u", "b", "l", "e",
                " ", "q", "u", "o", "t", "e", "s">>)
         [] m = "Expecting ':' delimiter" ->
            T(<<"E", "x", "p", "e", "c", "t", "i", "n", "g", " ", "'", ":", "'", " ",
                "d", "e", "l", "i", "m", "i", "t", "e", "r">>)
         [] m = "Expecting ',' delimiter" ->
            T(<<"E", "x", "p", "e", "c", "t", "i", "n", "g", " ", "'", ",", "'", " ",
                "d", "e", "l", "i", "m", "i", "t", "e", "r">>)
         [] m = "Unterminated string starting at" ->
            T(<<"U", "n", "t", "e", "r", "m", "i", "n", "a", "t", "e", "d", " ", "s",
                "t", "r", "i", "n", "g", " ", "s", "t", "a", "r", "t", "i", "n", "g",
                " ", "a", "t">>)
         [] m = "Invalid control character at" ->
            T(<<"I", "n", "v", "a", "l", "i", "d", " ", "c", "o", "n", "t", "r", "o",
                "l", " ", "c", "h", "a", "r", "a", "c", "t", "e", "r", " ", "a", "t">>)
         [] m = "Invalid \\uXXXX escape" ->
            T(<<"I", "n", "v", "a", "l", "i", "d", " ", "\\", "u", "X", "X", "X", "X",
                " ", "e", "s", "c", "a", "p", "e">>)
         [] m = "Invalid \\escape" ->
            T(<<"I", "n", "v", "a", "l", "i", "d", " ", "\\", "e", "s", "c", "a", "p",
                "e">>)
         [] OTHER ->
            T(<<"E", "x", "t", "r", "a", " ", "d", "a", "t", "a">>)]

S_line == T(<<":", " ", "l", "i", "n", "e", " ">>)
S_column == T(<<" ", "c", "o", "l", "u", "m", "n", " ">>)
S_char == T(<<" ", "(", "c", "h", "a", "r", " ">>)

\* str() of the JSONDecodeError that json.loads(str) raises with message m at
\* the index i: "m: line L column C (char i - 1)"
JSONDecodeError_str(str, m, i) ==
    LET breaks == {k \in 1..(i - 1) : k <= Len(str) /\ str[k] = 10}
        last == IF breaks = {} THEN 0 ELSE CHOOSE k \in breaks : \A j \in breaks : j <= k
    IN  JSONDecodeErrorTexts[m] \o S_line \o Digits(Cardinality(breaks) + 1)
        \o S_column \o Digits(i - last) \o S_char \o Digits(i - 1) \o <<41>>

\* json.loads(str): ok is FALSE where it raises JSONDecodeError, and msg is the
\* str() of that error.
json_loads(str) ==
    LET Refused(m, i) ==
            [ok |-> FALSE, v |-> JNull, msg |-> JSONDecodeError_str(str, m, i)]
        Ended(r, e) ==
            IF e # Len(str) + 1 THEN Refused("Extra data", e)
            ELSE [ok |-> TRUE, v |-> r.v, msg |-> <<>>]
        Loaded(r) == IF ~r.ok THEN Refused(r.m, r.i) ELSE Ended(r, SkipWs(str, r.i))
    IN  Loaded(ScanValue(str, SkipWs(str, 1)))

\* One character of a string literal as json.dumps writes it (ensure_ascii).
DumpChar(c) ==
    CASE c = 34 -> <<92, 34>>
      [] c = 92 -> <<92, 92>>
      [] c = 10 -> <<92, 110>>
      [] c = 13 -> <<92, 114>>
      [] c = 9  -> <<92, 116>>
      [] c = 8  -> <<92, 98>>
      [] c = 12 -> <<92, 102>>
      [] c \in 32..126 -> <<c>>
      [] OTHER -> <<92, 117, HexDigit((c \div 4096) % 16), HexDigit((c \div 256) % 16),
                    HexDigit((c \div 16) % 16), HexDigit(c % 16)>>

DumpChars(str) == Flatten([i \in 1..Len(str) |-> DumpChar(str[i])])

DumpString(str) == <<34>> \o DumpChars(str) \o <<34>>

RECURSIVE json_dumps(_)
RECURSIVE DumpItems(_, _, _)

\* The items of a dict (keyed) or list from the i-th on, joined by ', '.
DumpItems(items, i, keyed) ==
    IF i > Len(items) THEN <<>>
    ELSE (IF i > 1 THEN <<44, 32>> ELSE <<>>)
         \o (IF keyed THEN DumpString(items[i][1]) \o <<58, 32>> ELSE <<>>)
         \o json_dumps(items[i][2])
         \o DumpItems(items, i + 1, keyed)

\* json.dumps(v)
json_dumps(v) ==
    CASE v.t = "null" -> <<110, 117, 108, 108>>
      [] v.t = "bool" -> IF v.s[1] = 1 THEN <<116, 114, 117, 101>>
                                       ELSE <<102, 97, 108, 115, 101>>
      [] v.t = "int"  -> Digits(v.s[1])
      [] v.t = "str"  -> DumpString(v.s)
      [] v.t = "obj"  -> <<123>> \o DumpItems(v.o, 1, TRUE) \o <<125>>
      [] OTHER        -> <<91>> \o DumpItems(v.o, 1, FALSE) \o <<93>>

RECURSIVE PyRepr(_)
RECURSIVE ReprItems(_, _, _)

ReprItems(items, i, keyed) ==
    IF i > Len(items) THEN <<>>
    ELSE (IF i > 1 THEN <<44, 32>> ELSE <<>>)
         \o (IF keyed THEN <<39>> \o items[i][1] \o <<39, 58, 32>> ELSE <<>>)
         \o PyRepr(items[i][2])
         \o ReprItems(items, i + 1, keyed)

\* repr(v), for strings that hold no quote, backslash or unprintable character
PyRepr(v) ==
    CASE v.t = "null" -> <<78, 111, 110, 101>>
      [] v.t = "bool" -> IF v.s[1] = 1 THEN <<84, 114, 117, 101>>
                                       ELSE <<70, 97, 108, 115, 101>>
      [] v.t = "int"  -> Digits(v.s[1])
      [] v.t = "str"  -> <<39>> \o v.s \o <<39>>
      [] v.t = "obj"  -> <<123>> \o ReprItems(v.o, 1, TRUE) \o <<125>>
      [] OTHER        -> <<91>> \o ReprItems(v.o, 1, FALSE) \o <<93>>

\* str(v)
PyStr(v) == IF v.t = "str" THEN v.s ELSE PyRepr(v)

(***************************************************************************)
(* base64.b64decode(str) and bytes.decode("utf-8"), with the encoders that *)
(* write the model's encoded bodies.                                       *)
(***************************************************************************)

\* The 6-bit value of a base64 character, 64 for a character outside the alphabet.
B64Val(c) ==
    CASE c \in 65..90  -> c - 65
      [] c \in 97..122 -> c - 71
      [] c \in 48..57  -> c + 4
      [] c = 43        -> 62
      [] c = 47        -> 63
      [] OTHER         -> 64

B64Char(n) ==
    CASE n < 26 -> 65 + n
      [] n < 52 -> 71 + n
      [] n < 62 -> n - 4
      [] n = 62 -> 43
      [] OTHER  -> 47

\* The indices of str before index i that hold base64 characters.
DataBefore(str, i) == {j \in 1..(i - 1) : B64Val(str[j]) < 64}

\* binascii.a2b_base64 (not strict) reads a pad '=' at index i with quad_pos
\* characters of the current quad read, and pads counted since the last of them.
QuadPos(str, i) == Cardinality(DataBefore(str, i)) % 4
PadsBefore(str, i) ==
    Cardinality({j \in 1..(i - 1) :
                    /\ str[j] = 61
                    /\ \A k \in DataBefore(str, i) : k < j})

\* The pad at index i completes a pad sequence: nothing after it is read.
EndsInput(str, i) ==
    /\ str[i] = 61
    /\ QuadPos(str, i) >= 2
    /\ QuadPos(str, i) + PadsBefore(str, i) + 1 >= 4

\* binascii.a2b_base64 (not strict): characters outside the alphabet are
\* skipped, a completed pad sequence ends the input, a quad left incomplete at
\* the end raises binascii.Error.
A2B(str) ==
    LET ends == {i \in 1..Len(str) : EndsInput(str, i)}
        stop == IF ends = {} THEN Len(str) + 1
                ELSE CHOOSE i \in ends : \A j \in ends : i <= j
        read == SubSeq(str, 1, stop - 1)
        data == SelectSeq([i \in 1..Len(read) |-> B64Val(read[i])], LAMBDA x : x < 64)
        m == Len(data)
        n == 3 * (m \div 4) + (IF m % 4 = 2 THEN 1 ELSE IF m % 4 = 3 THEN 2 ELSE 0)
        byte(k) ==
            LET g == 4 * ((k - 1) \div 3)
            IN  CASE (k - 1) % 3 = 0 -> data[g + 1] * 4 + (data[g + 2] \div 16)
                  [] (k - 1) % 3 = 1 -> (data[g + 2] % 16) * 16 + (data[g + 3] \div 4)
                  [] OTHER           -> (data[g + 3] % 4) * 64 + data[g + 4]
    IN  [ok |-> ends # {} \/ m % 4 = 0, v |-> [k \in 1..n |-> byte(k)]]

\* base64.b64decode(str): err names the exception raised where ok is FALSE.
b64decode(str) ==
    IF \E i \in 1..Len(str) : str[i] > 127
    THEN [ok |-> FALSE, err |-> "ValueError", v |-> <<>>]
    ELSE LET r == A2B(str)
         IN  IF r.ok THEN [ok |-> TRUE, err |-> "", v |-> r.v]
                     ELSE [ok |-> FALSE, err |-> "binascii.Error", v |-> <<>>]

IsCont(bs, i) == i <= Len(bs) /\ bs[i] \in 128..191

\* The number of bytes the character that starts with byte b takes, 0 when no
\* character starts with it.
Utf8Width(b) ==
    CASE b < 128       -> 1
      [] b \in 194..223 -> 2
      [] b \in 224..239 -> 3
      [] b \in 240..244 -> 4
      [] OTHER         -> 0

\* A well-formed character starts at index i and the next one, if any, follows it.
Utf8CharAt(bs, i) ==
    LET b == bs[i]
        w == Utf8Width(b)
    IN  /\ w > 0
        /\ \A k \in 1..(w - 1) : IsCont(bs, i + k)
        /\ ~IsCont(bs, i + w)
        /\ (b = 224 => bs[i + 1] >= 160)
        /\ (b = 237 => bs[i + 1] <= 159)
        /\ (b = 240 => bs[i + 1] >= 144)
        /\ (b = 244 => bs[i + 1] <= 143)

Utf8CodePoint(bs, i) ==
    LET b == bs[i]
    IN  CASE Utf8Width(b) = 1 -> b
          [] Utf8Width(b) = 2 -> (b - 192) * 64 + (bs[i + 1] - 128)
          [] Utf8Width(b) = 3 ->
               (b - 224) * 4096 + (bs[i + 1] - 128) * 64 + (bs[i + 2] - 128)
          [] OTHER ->
               (b - 240) * 262144 + (bs[i + 1] - 128) * 4096
               + (bs[i + 2] - 128) * 64 + (bs[i + 3] - 128)

\* bytes.decode("utf-8"): err names the exception raised where ok is FALSE.
utf8_decode(bs) ==
    LET starts == SelectSeq([i \in 1..Len(bs) |-> i], LAMBDA i : ~IsCont(bs, i))
    IN  IF /\ (bs # <<>> => ~IsCont(bs, 1))
           /\ \A k \in 1..Len(starts) : Utf8CharAt(bs, starts[k])
        THEN [ok |-> TRUE, err |-> "",
              v |-> [k \in 1..Len(starts) |-> Utf8CodePoint(bs, starts[k])]]
        ELSE [ok |-> FALSE, err |-> "UnicodeDecodeError", v |-> <<>>]

Utf8Char(c) ==
    IF c < 128 THEN <<c>>
    ELSE IF c < 2048 THEN <<192 + (c \div 64), 128 + (c % 64)>>
    ELSE <<224 + (c \div 4096), 128 + ((c \div 64) % 64), 128 + (c % 64)>>

\* str.encode("utf-8"), for code points below U+10000 that are no surrogates
utf8_encode(str) == Flatten([i \in 1..Len(str) |-> Utf8Char(str[i])])

\* The 6-bit groups of three bytes, of which the last one or two may be missing.
B64Quad(b1, b2, b3, given) ==
    <<B64Char(b1 \div 4),
      B64Char((b1 % 4) * 16 + (b2 \div 16)),
      IF given >= 2 THEN B64Char((b2 % 16) * 4 + (b3 \div 64)) ELSE 61,
      IF given >= 3 THEN B64Char(b3 % 64) ELSE 61>>

\* base64.b64encode(bs).decode("ascii")
b64encode(bs) ==
    LET n == Len(bs)
        at(i) == IF i <= n THEN bs[i] ELSE 0
    IN  Flatten([g \in 1..((n + 2) \div 3) |->
                    B64Quad(at(3 * g - 2), at(3 * g - 1), at(3 * g), n - (3 * g - 3))])

(***************************************************************************)
(* utils.py                                                                *)
(***************************************************************************)

\* truncated_user_id = user_id[:20] if len(user_id) > 20 else user_id
truncated_user_id(user_id) ==
    IF Len(user_id) > 20 THEN Take(user_id, 20) ELSE user_id

\* c.isalnum() or c in '-_'
safe_char(c) == IsAlnum(c) \/ c \in {45, 95}

\* safe_user_id = ''.join(c for c in truncated_user_id if c.isalnum() or c in '-_')
safe_user_id(user_id) == SelectSeq(truncated_user_id(user_id), safe_char)

\* f"{prefix}-{search_id[:8]}-{safe_user_id}"
build_execution_name(prefix, search_id, user_id) ==
    prefix \o <<45>> \o Take(search_id, 8) \o <<45>> \o safe_user_id(user_id)

(***************************************************************************)
(* request_parser.py                                                       *)
(***************************************************************************)

K_body == T(<<"b", "o", "d", "y">>)
K_isBase64Encoded ==
    T(<<"i", "s", "B", "a", "s", "e", "6", "4", "E", "n", "c", "o", "d", "e", "d">>)
K_requestContext ==
    T(<<"r", "e", "q", "u", "e", "s", "t", "C", "o", "n", "t", "e", "x", "t">>)
K_authorizer == T(<<"a", "u", "t", "h", "o", "r", "i", "z", "e", "r">>)
K_userId == T(<<"u", "s", "e", "r", "I", "d">>)
K_searchId ==
    T(<<"s", "e", "a", "r", "c", "h", "I", "d">>)
K_query == T(<<"q", "u", "e", "r", "y">>)
K_flags == T(<<"f", "l", "a", "g", "s">>)
K_hyde_provider ==
    T(<<"h", "y", "d", "e", "_", "p", "r", "o", "v", "i", "d", "e", "r">>)
K_description_provider ==
    T(<<"d", "e", "s", "c", "r", "i", "p", "t", "i", "o", "n", "_",
        "p", "r", "o", "v", "i", "d", "e", "r">>)
K_reasoning_model ==
    T(<<"r", "e", "a", "s", "o", "n", "i", "n", "g", "_", "m", "o", "d", "e", "l">>)
K_alternative_skills ==
    T(<<"a", "l", "t", "e", "r", "n", "a", "t", "i", "v", "e", "_",
        "s", "k", "i", "l", "l", "s">>)
K_reasoning == T(<<"r", "e", "a", "s", "o", "n", "i", "n", "g">>)
K_fallback == T(<<"f", "a", "l", "l", "b", "a", "c", "k">>)
S_groq_llama == T(<<"g", "r", "o", "q", "_", "l", "l", "a", "m", "a">>)

Msg_event_object ==
    T(<<"E", "v", "e", "n", "t", " ", "p", "a", "y", "l", "o", "a", "d", " ",
        "m", "u", "s", "t", " ", "b", "e", " ", "a", " ", "J", "S", "O", "N", " ",
        "o", "b", "j", "e", "c", "t">>)
Msg_valid_json ==
    T(<<"R", "e", "q", "u", "e", "s", "t", " ", "b", "o", "d", "y", " ",
        "m", "u", "s", "t", " ", "b", "e", " ", "v", "a", "l", "i", "d", " ",
        "J", "S", "O", "N">>)
Msg_body_format ==
    T(<<"U", "n", "s", "u", "p", "p", "o", "r", "t", "e", "d", " ",
        "r", "e", "q", "u", "e", "s", "t", " ", "b", "o", "d", "y", " ",
        "f", "o", "r", "m", "a", "t">>)
Msg_is_required == T(<<" ", "i", "s", " ", "r", "e", "q", "u", "i", "r", "e", "d">>)
Msg_cannot_be_empty ==
    T(<<" ", "c", "a", "n", "n", "o", "t", " ", "b", "e", " ", "e", "m", "p", "t", "y">>)

\* What a call does: it returns v, or raises the exception err with message msg.
Returned(v) == [ok |-> TRUE, err |-> "", msg |-> <<>>, v |-> v]
Raised(err, msg) == [ok |-> FALSE, err |-> err, msg |-> msg, v |-> JNull]

\* type(v).__name__
PyTypeName(v) ==
    CASE v.t = "null" -> T(<<"N", "o", "n", "e", "T", "y", "p", "e">>)
      [] v.t = "bool" -> T(<<"b", "o", "o", "l">>)
      [] v.t = "int"  -> T(<<"i", "n", "t">>)
      [] v.t = "str"  -> T(<<"s", "t", "r">>)
      [] v.t = "obj"  -> T(<<"d", "i", "c", "t">>)
      [] OTHER        -> T(<<"l", "i", "s", "t">>)

Msg_no_get ==
    T(<<"'", " ", "o", "b", "j", "e", "c", "t", " ", "h", "a", "s", " ", "n", "o", " ",
        "a", "t", "t", "r", "i", "b", "u", "t", "e", " ", "'", "g", "e", "t", "'">>)
Msg_not_mapping ==
    T(<<"'", " ", "o", "b", "j", "e", "c", "t", " ", "i", "s", " ", "n", "o", "t", " ",
        "a", " ", "m", "a", "p", "p", "i", "n", "g">>)

\* v.get(key, default): only a dict has the method.
PyGet(v, key, default) ==
    IF v.t = "obj" THEN Returned(Get(v, key, default))
    ELSE Raised("AttributeError", <<39>> \o PyTypeName(v) \o Msg_no_get)

\* _extract_body(event).  Each step of the function is a local operator that
\* takes what the step before it computed.
extract_body(event) ==
    LET FromJson(loaded) ==
            IF loaded.ok THEN Returned(loaded.v)
            ELSE Raised("RequestValidationError", Msg_valid_json)
        FromText(stripped) ==
            IF stripped = <<>> THEN Returned(JObj(<<>>))
            ELSE FromJson(json_loads(stripped))
        FromBody(body) ==
            IF body.t = "str" THEN FromText(Strip(body.s))
            ELSE IF body.t = "obj" THEN Returned(body)
            ELSE Raised("RequestValidationError", Msg_body_format)
        FromDecoded(text) ==
            IF ~text.ok THEN Raised(text.err, <<>>) ELSE FromBody(JStr(text.v))
        FromBytes(bytes) ==
            IF ~bytes.ok THEN Raised(bytes.err, <<>>)
            ELSE FromDecoded(utf8_decode(bytes.v))
        FromRaw(raw) ==
            IF Truthy(Get(event, K_isBase64Encoded, JNull)) /\ raw.t = "str"
            THEN FromBytes(b64decode(raw.s))
            ELSE FromBody(raw)
    IN  IF event.t # "obj"
        THEN Raised("RequestValidationError", Msg_event_object)
        ELSE IF ~HasKey(event, K_body) THEN Returned(event)
        ELSE FromRaw(Get(event, K_body, JStr(<<>>)))

\* _require_non_empty_string(payload, field_name)
require_non_empty_string(payload, field_name) ==
    LET value == PyGet(payload, field_name, JNull)
    IN  IF ~value.ok THEN value
        ELSE IF value.v.t = "null"
             THEN Raised("RequestValidationError", field_name \o Msg_is_required)
        ELSE LET value_str == Strip(PyStr(value.v))
             IN  IF value_str = <<>>
                 THEN Raised("RequestValidationError", field_name \o Msg_cannot_be_empty)
                 ELSE Returned(JStr(value_str))

default_flags ==
    JObj(<< <<K_hyde_provider, JStr(S_groq_llama)>>,
            <<K_description_provider, JStr(S_groq_llama)>>,
            <<K_reasoning_model, JStr(S_groq_llama)>>,
            <<K_alternative_skills, JBool(FALSE)>>,
            <<K_reasoning, JBool(FALSE)>>,
            <<K_fallback, JBool(FALSE)>> >>)

\* The merge with the operands exchanged: {**flags, **default_flags}.
merge_flags_defaults_last(defaults, flags) ==
    IF flags.t = "obj" THEN Returned(MergeFrom(flags, defaults, 1))
    ELSE Raised("TypeError", <<39>> \o PyTypeName(flags) \o Msg_not_mapping)

\* {**default_flags, **flags}: flags must be a mapping.
merge_flags(defaults, flags) ==
    IF flags.t = "obj" THEN Returned(MergeFrom(defaults, flags, 1))
    ELSE Raised("TypeError", <<39>> \o PyTypeName(flags) \o Msg_not_mapping)

\* event.get('requestContext', {}).get('authorizer', {}).get('userId')
authorizer_user_id(event) ==
    LET rc == PyGet(event, K_requestContext, JObj(<<>>))
        auth == PyGet(rc.v, K_authorizer, JObj(<<>>))
    IN  IF ~auth.ok THEN auth ELSE PyGet(auth.v, K_userId, JNull)

NoRequest ==
    [search_id |-> <<>>, user_id |-> JNull, query |-> JNull, flags |-> JNull,
     initiated_at |-> <<>>]

Parsed(req) == [ok |-> TRUE, err |-> "", msg |-> <<>>, req |-> req]
ParseRaised(r) == [ok |-> FALSE, err |-> r.err, msg |-> r.msg, req |-> NoRequest]

\* parse_event(event, config) up to the point where it reads uuid.uuid4() and
\* the clock: the validated user_id, query and flags, or the exception raised.
\* Each step of the function is a local operator that takes what the steps
\* before it computed.
validated_event(event) ==
    LET WithFinalFlags(user_id, query, final_flags) ==
            IF ~final_flags.ok THEN ParseRaised(final_flags)
            ELSE Parsed([search_id |-> <<>>, user_id |-> user_id, query |-> query,
                         flags |-> final_flags.v, initiated_at |-> <<>>])
        WithFlags(user_id, query, flags) ==
            IF ~flags.ok THEN ParseRaised(flags)
            ELSE WithFinalFlags(user_id, query, merge_flags(default_flags, flags.v))
        WithQuery(body, user_id, query) ==
            IF ~query.ok THEN ParseRaised(query)
            ELSE WithFlags(user_id, query.v, PyGet(body, K_flags, JObj(<<>>)))
        WithUserId(body, user_id) ==
            IF ~user_id.ok THEN ParseRaised(user_id)
            ELSE WithQuery(body, user_id.v, require_non_empty_string(body, K_query))
        WithAuthorizer(body, auth) ==
            IF ~auth.ok THEN ParseRaised(auth)
            ELSE WithUserId(body, IF Truthy(auth.v) THEN auth
                                  ELSE require_non_empty_string(body, K_userId))
        WithBody(body) ==
            IF ~body.ok THEN ParseRaised(body)
            ELSE WithAuthorizer(body.v, IF HasKey(event, K_requestContext)
                                        THEN authorizer_user_id(event)
                                        ELSE Returned(JNull))
    IN  WithBody(extract_body(event))

\* The request parse_event returns for a validated event, with the values
\* uuid.uuid4() and datetime.now(timezone.utc).isoformat() give it.
execution_request(valid, uuid, now) ==
    IF valid.ok
    THEN Parsed([valid.req EXCEPT !.search_id = uuid, !.initiated_at = now])
    ELSE valid

\* parse_event(event, config)
\* A parse_event that takes a searchId the caller supplies for the search id.
parse_event_caller_id(event, uuid, now) ==
    execution_request(
        validated_event(event),
        IF extract_body(event).ok /\ Get(extract_body(event).v, K_searchId, JNull).t = "str"
        THEN Get(extract_body(event).v, K_searchId, JNull).s
        ELSE uuid,
        now)

parse_event(event, uuid, now) == execution_request(validated_event(event), uuid, now)

(***************************************************************************)
(* config.py                                                               *)
(***************************************************************************)

\* An environment variable that is not set, and one set to a string.
Unset == [set |-> FALSE, v |-> <<>>]
SetTo(str) == [set |-> TRUE, v |-> str]

\* os.getenv(name, default), over an environment that is a record of variables
getenv(env, name, default) == IF env[name].set THEN env[name].v ELSE default

S_search_exec == T(<<"s", "e", "a", "r", "c", "h", "-", "e", "x", "e", "c">>)
S_star == T(<<"*">>)
Msg_arn_required ==
    T(<<"L", "O", "G", "I", "C", "A", "L", "_", "S", "E", "A", "R", "C", "H", "_",
        "S", "T", "A", "T", "E", "_", "M", "A", "C", "H", "I", "N", "E", "_", "A", "R", "N", " ",
        "e", "n", "v", "i", "r", "o", "n", "m", "e", "n", "t", " ",
        "v", "a", "r", "i", "a", "b", "l", "e", " ", "i", "s", " ",
        "r", "e", "q", "u", "i", "r", "e", "d">>)

NoConfig ==
    [state_machine_arn |-> <<>>, execution_name_prefix |-> <<>>,
     cors_allowed_origin |-> <<>>]

\* Config.load(): cfg is the Config returned where ok is TRUE.
Config_load(env) ==
    LET arn == Strip(getenv(env, "LOGICAL_SEARCH_STATE_MACHINE_ARN", <<>>))
    IN  IF arn = <<>>
        THEN [ok |-> FALSE, err |-> "ConfigurationError", msg |-> Msg_arn_required,
              cfg |-> NoConfig]
        ELSE [ok |-> TRUE, err |-> "", msg |-> <<>>,
              cfg |-> [state_machine_arn |-> arn,
                       execution_name_prefix |->
                           getenv(env, "EXECUTION_NAME_PREFIX", S_search_exec),
                       cors_allowed_origin |->
                           getenv(env, "CORS_ALLOWED_ORIGIN", S_star)]]

S_arn == T(<<"a", "r", "n", ":", "s", "m">>)

\* The environments of the model: the workflow identifier unset, empty, blank,
\* given, and given between blanks; the prefix and the origin unset or given.
Environments ==
    [LOGICAL_SEARCH_STATE_MACHINE_ARN :
        {Unset, SetTo(<<>>), SetTo(<<32, 32>>), SetTo(S_arn), SetTo(<<32>> \o S_arn \o <<10>>)},
     EXECUTION_NAME_PREFIX : {Unset, SetTo(T(<<"p">>))},
     CORS_ALLOWED_ORIGIN : {Unset, SetTo(T(<<"h", "t", "t", "p", "s", ":", "/", "/", "a">>))}]

(***************************************************************************)
(* Events                                                                  *)
(***************************************************************************)

\* A field the caller leaves out.
Absent == [t |-> "absent", s |-> <<>>, o |-> <<>>]

\* The dict of the pairs whose value is given.
Fields(pairs) == JObj(SelectSeq(pairs, LAMBDA pr : pr[2].t # "absent"))

S_find == T(<<"f", "i", "n", "d", " ", "m", "l", " ", "e", "x", "p", "e", "r", "t", "s">>)
S_openai == T(<<"o", "p", "e", "n", "a", "i">>)
K_custom == T(<<"c", "u", "s", "t", "o", "m">>)

QueryValues ==
    {Absent, JNull, JStr(<<>>), JStr(<<32, 32>>), JStr(T(<<"x">>)),
     JStr(<<32>> \o S_find \o <<32>>), JInt(7)}

UserIdValues ==
    {Absent, JNull, JStr(<<>>), JStr(<<32>>), JStr(T(<<"u", "1">>)), JInt(42)}

FlagValues ==
    {Absent, JNull, JStr(T(<<"x">>)), JObj(<<>>),
     JObj(<< <<K_reasoning, JBool(TRUE)>> >>),
     JObj(<< <<K_hyde_provider, JStr(S_openai)>>, <<K_custom, JInt(1)>>,
             <<K_fallback, JNull>> >>)}

Authorizer(user_id) ==
    JObj(<< <<K_authorizer, Fields(<< <<K_userId, user_id>> >>)>> >>)

S_u2 == T(<<"u", "2">>)

ContextValues ==
    {Absent, JNull, JObj(<<>>), JObj(<< <<K_authorizer, JNull>> >>),
     Authorizer(Absent), Authorizer(JStr(S_u2)), Authorizer(JInt(42)),
     Authorizer(JStr(<<32>>))}

Payloads ==
    {Fields(<< <<K_query, q>>, <<K_userId, u>>, <<K_flags, f>> >>) :
        q \in QueryValues, u \in UserIdValues, f \in FlagValues}

\* The direct shape: the event is the payload.
DirectEvent(payload, context) ==
    JObj(payload.o \o Fields(<< <<K_requestContext, context>> >>).o)

\* The gateway shape: the payload is the event's body.
GatewayEvent(body, encoded, context) ==
    Fields(<< <<K_body, body>>, <<K_isBase64Encoded, encoded>>,
              <<K_requestContext, context>> >>)

\* The body of a payload as a client sends it: the dict itself, its JSON text,
\* or the base64 of its JSON text.
Bodies(payload) ==
    { <<payload, Absent>>,
      <<JStr(json_dumps(payload)), Absent>>,
      <<JStr(b64encode(utf8_encode(json_dumps(payload)))), JBool(TRUE)>> }

\* Bodies that hold no JSON object: null, a number, a list, blank and broken
\* text, JSON text of a list, a string, a number and null.
OddBodies ==
    {JNull, JInt(5), JList(<<>>), JStr(<<>>), JStr(<<32, 10>>),
     JStr(T(<<"[", "]">>)), JStr(T(<<"\"", "s", "\"">>)), JStr(T(<<"1", "2">>)),
     JStr(T(<<"n", "u", "l", "l">>)), JStr(T(<<"{">>)),
     JStr(T(<<"{", "\"", "q", "u", "e", "r", "y", "\"", ":", "\"", "x", "\"", ",", "}">>))}

\* Bodies flagged base64 that are not the base64 of a JSON object: a bad
\* padding, bytes that are no UTF-8, blanks, a list, and plain JSON text.
OddEncodedBodies ==
    {JStr(T(<<"e", "3", "0">>)), JStr(T(<<"/", "w", "=", "=">>)),
     JStr(T(<<"I", "C", "A", "g">>)), JStr(T(<<"W", "1", "0", "=">>)), JStr(<<>>),
     JStr(T(<<"{", "\"", "q", "u", "e", "r", "y", "\"", ":", "\"", "x", "\"", "}">>)),
     JStr(<<233>>)}

WellFormedEvents ==
    {DirectEvent(p, c) : p \in Payloads, c \in {Absent, Authorizer(JStr(S_u2))}}
    \cup {GatewayEvent(b[1], b[2], c) :
            b \in UNION {Bodies(p) : p \in Payloads}, c \in ContextValues}

OddEvents ==
    {GatewayEvent(b, e, c) :
        b \in OddBodies, e \in {Absent, JBool(TRUE), JBool(FALSE)},
        c \in {Absent, Authorizer(JStr(S_u2))}}
    \cup {GatewayEvent(b, JBool(TRUE), c) :
            b \in OddEncodedBodies, c \in {Absent, Authorizer(JStr(S_u2))}}

Events == WellFormedEvents \cup OddEvents

\* The number of values the first 8 characters of a uuid take in the model,
\* and the number of values the rest of it takes.
MaxUuidHeads == 2
MaxUuidTails == 2

\* A string of the shape of str(uuid.uuid4()): hhhhhhhh-tttt-4ttt-8ttt-tttttttttttt
Uuid(h, tl) ==
    [i \in 1..36 |->
        IF i \in {9, 14, 19, 24} THEN 45
        ELSE IF i = 15 THEN 52
        ELSE IF i = 20 THEN 56
        ELSE IF i <= 8 THEN 48 + h
        ELSE 48 + tl]

UuidPool == {Uuid(h, tl) : h \in 1..MaxUuidHeads, tl \in 1..MaxUuidTails}

\* datetime.now(timezone.utc).isoformat() at the n-th second of the model's clock
S_date == T(<<"2", "0", "2", "6", "-", "0", "1", "-", "0", "1", "T", "0", "0", ":", "0", "0", ":", "0">>)
S_utc == T(<<"+", "0", "0", ":", "0", "0">>)
isoformat(n) == S_date \o Digits(n) \o S_utc

(***************************************************************************)
(* Inputs of build_execution_name                                          *)
(***************************************************************************)

\* Every user id of at most this many characters over UserAlphabet is an input.
MaxUserLen == 2

\* The long user ids run from 19 characters to 20 + MaxOver characters.
MaxOver == 2

\* a Z 7 - _ space ! U+00E9 U+0663 U+20AC
UserAlphabet == {97, 90, 55, 45, 95, 32, 33, 233, 1635, 8364}

RECURSIVE StringsUpTo(_, _)
StringsUpTo(alphabet, n) ==
    IF n = 0 THEN {<<>>}
    ELSE LET shorter == StringsUpTo(alphabet, n - 1)
         IN  shorter \cup {Append(w, c) : w \in shorter, c \in alphabet}

\* w repeated up to n characters
Cycle(w, n) == [i \in 1..n |-> w[((i - 1) % Len(w)) + 1]]

ShortUserIds == StringsUpTo(UserAlphabet, MaxUserLen)

LongUserIds ==
    {Cycle(w, n) : w \in ShortUserIds \ {<<>>}, n \in 19..(20 + MaxOver)}

UserIds == ShortUserIds \cup LongUserIds

Prefixes == {T(<<"s", "e", "a", "r", "c", "h", "-", "e", "x", "e", "c">>), T(<<"p">>)}

\* Search ids of 0, 3, 8, 9 and 36 characters (the last has the shape of str(uuid4())).
NameSearchIds ==
    { <<>>,
      T(<<"0", "a", "f">>),
      T(<<"1", "b", "9", "d", "6", "b", "c", "d">>),
      T(<<"1", "b", "9", "d", "6", "b", "c", "d", "-">>),
      T(<<"1", "b", "9", "d", "6", "b", "c", "d", "-", "b", "b", "f", "d", "-",
          "4", "b", "2", "d", "-", "9", "b", "5", "d", "-",
          "a", "b", "8", "d", "f", "b", "b", "d", "4", "b", "e", "d">>) }

NameArgs == [prefix : Prefixes, search_id : NameSearchIds, user_id : UserIds]

(***************************************************************************)
(* Specification of utils.py: build_execution_name applied to its inputs   *)
(***************************************************************************)

\* The variables of the other components, in the state the process starts in.
IdleName == name_args = NoCall /\ name_ret = NoCall
IdleParse == parse_in = NoCall /\ parse_ret = NoCall
IdleExec == exec_ret = NoCall /\ client_calls = <<>>
IdleHandler ==
    /\ STATE_MACHINE_ARN = NoCall
    /\ searchOutputCollection = <<>>
    /\ executions = {}
    /\ handler_event = NoCall
    /\ response = NoCall
    /\ effects = <<>>
    /\ invocations = 0

InitName ==
    /\ name_args \in NameArgs
    /\ name_ret = NoCall
    /\ IdleParse
    /\ IdleExec
    /\ IdleHandler
    /\ environ = NoCall
    /\ uuids = {}

BuildName ==
    /\ ~name_ret.called
    /\ name_ret' = [called |-> TRUE,
                    value |-> build_execution_name(name_args.prefix,
                                                   name_args.search_id,
                                                   name_args.user_id)]
    /\ UNCHANGED <<name_args, parseVars, uuids, environ, execVars, handlerVars>>

NextName == BuildName

SpecName == InitName /\ [][NextName]_vars

\* The suffix of a built name: what follows prefix, '-', search_id[:8], '-'.
NameSuffix ==
    SubSeq(name_ret.value,
           Len(name_args.prefix) + Len(Take(name_args.search_id, 8)) + 3,
           Len(name_ret.value))

NameHead ==
    name_args.prefix \o <<45>> \o Take(name_args.search_id, 8) \o <<45>>

\* C8: the built name is prefix, '-', the first 8 characters of the search id,
\* '-' and a suffix made only of characters in [A-Za-z0-9_-], and is at most
\* len(prefix) + 1 + 8 + 1 + 20 characters long.
C8_NameShape ==
    name_ret.called =>
        /\ Len(name_ret.value) >= Len(NameHead)
        /\ SubSeq(name_ret.value, 1, Len(NameHead)) = NameHead
        /\ \A i \in 1..Len(NameSuffix) : IsNameChar(NameSuffix[i])
        /\ Len(name_ret.value) <= Len(name_args.prefix) + 1 + 8 + 1 + 20

\* The parts of C8 the code keeps: the head, the length bound, and a suffix of
\* characters that are alphanumeric in Python's sense or '-' or '_'.
NameShapeKept ==
    name_ret.called =>
        /\ Len(name_ret.value) >= Len(NameHead)
        /\ SubSeq(name_ret.value, 1, Len(NameHead)) = NameHead
        /\ \A i \in 1..Len(NameSuffix) : safe_char(NameSuffix[i])
        /\ Len(NameSuffix) <= 20
        /\ Len(name_ret.value) <= Len(name_args.prefix) + 1 + 8 + 1 + 20

(***************************************************************************)
(* Specification of request_parser.py: parse_event applied to an event     *)
(***************************************************************************)

InitParse ==
    /\ parse_in \in Events
    /\ parse_ret = NoCall
    /\ IdleName
    /\ IdleExec
    /\ IdleHandler
    /\ environ = NoCall
    /\ uuids = {}

\* parse_event(parse_in, config): uuid.uuid4() is read only once the event is
\* validated, and returns a value it has not returned before.  (The validation
\* is bound by a quantifier over a singleton so that it is evaluated once.)
ParseEvent ==
    /\ ~parse_ret.called
    /\ \E valid \in {validated_event(parse_in)} :
           \E uuid \in UuidPool \ uuids :
             LET r == execution_request(valid, uuid, isoformat(0))
             IN  /\ parse_ret' = [called |-> TRUE, ok |-> r.ok, err |-> r.err,
                                  msg |-> r.msg, req |-> r.req]
                 /\ uuids' = IF r.ok THEN uuids \cup {uuid} ELSE uuids
    /\ UNCHANGED <<parse_in, nameVars, environ, execVars, handlerVars>>

NextParse == ParseEvent

SpecParse == InitParse /\ [][NextParse]_vars

DefaultKeys ==
    {K_hyde_provider, K_description_provider, K_reasoning_model,
     K_alternative_skills, K_reasoning, K_fallback}

DefaultValue(key) ==
    IF key \in {K_hyde_provider, K_description_provider, K_reasoning_model}
    THEN JStr(S_groq_llama)
    ELSE JBool(FALSE)

Keys(d) == {d.o[i][1] : i \in 1..Len(d.o)}

\* The flags the caller supplied with the event: the flags of its payload,
\* none when the payload has no flags field.
CallerFlags(event) == Get(extract_body(event).v, K_flags, JObj(<<>>))

\* The flags of request are the defaults under the caller's flags.
FlagsMerged(caller, flags) ==
    /\ flags.t = "obj"
    /\ Keys(flags) = DefaultKeys \cup Keys(caller)
    /\ Cardinality(Keys(flags)) = Len(flags.o)
    /\ \A k \in Keys(caller) : Lookup(flags, k) = Lookup(caller, k)
    /\ \A k \in DefaultKeys \ Keys(caller) : Lookup(flags, k) = DefaultValue(k)

\* C5: parse_event either returns a request or raises RequestValidationError,
\* whatever the event holds.
C5_OnlyValidationErrors ==
    parse_ret.called => (parse_ret.ok \/ parse_ret.err = "RequestValidationError")

\* C6: the flags of every request parse_event returns hold the six default
\* keys; a key the caller supplied has the caller's value, a default key the
\* caller did not supply has its default, and a caller's key outside the
\* defaults is kept with its value.
C6_FlagsMerged ==
    (parse_ret.called /\ parse_ret.ok) =>
        FlagsMerged(CallerFlags(parse_in), parse_ret.req.flags)

\* A request whose caller overrode one default, nulled another and added a key
\* of its own.
C6_Witness ==
    /\ parse_ret.called /\ parse_ret.ok
    /\ Get(CallerFlags(parse_in), K_hyde_provider, JNull) = JStr(S_openai)
    /\ Get(parse_ret.req.flags, K_hyde_provider, JNull) = JStr(S_openai)
    /\ HasKey(parse_ret.req.flags, K_custom)
    /\ Get(parse_ret.req.flags, K_reasoning, JNull) = JBool(FALSE)

\* C7: the user_id and the query of every request parse_event returns are
\* non-empty strings.
C7_NonEmptyStrings ==
    (parse_ret.called /\ parse_ret.ok) =>
        /\ parse_ret.req.user_id.t = "str" /\ parse_ret.req.user_id.s # <<>>
        /\ parse_ret.req.query.t = "str" /\ parse_ret.req.query.s # <<>>

\* What the code keeps of C7: the query, and a user_id taken from the body,
\* are non-empty strings with no blank at either end.
QueryNonEmpty ==
    (parse_ret.called /\ parse_ret.ok) =>
        /\ parse_ret.req.query.t = "str"
        /\ parse_ret.req.query.s # <<>>
        /\ Strip(parse_ret.req.query.s) = parse_ret.req.query.s
        /\ (~HasKey(parse_in, K_requestContext) =>
               /\ parse_ret.req.user_id.t = "str"
               /\ Strip(parse_ret.req.user_id.s) # <<>>)

(***************************************************************************)
(* stepfunctions_client.py                                                 *)
(***************************************************************************)

K_initiatedAt ==
    T(<<"i", "n", "i", "t", "i", "a", "t", "e", "d", "A", "t">>)
K_stateMachineArn ==
    T(<<"s", "t", "a", "t", "e", "M", "a", "c", "h", "i", "n", "e", "A", "r", "n">>)
K_name ==
    T(<<"n", "a", "m", "e">>)
K_input ==
    T(<<"i", "n", "p", "u", "t">>)
K_traceHeader ==
    T(<<"t", "r", "a", "c", "e", "H", "e", "a", "d", "e", "r">>)
K_executionArn ==
    T(<<"e", "x", "e", "c", "u", "t", "i", "o", "n", "A", "r", "n">>)
K_executionName ==
    T(<<"e", "x", "e", "c", "u", "t", "i", "o", "n", "N", "a", "m", "e">>)
K_startDate ==
    T(<<"s", "t", "a", "r", "t", "D", "a", "t", "e">>)

\* SearchExecutionRequest.to_stepfunctions_input()
to_stepfunctions_input(req) ==
    JObj(<< <<K_searchId, JStr(req.search_id)>>, <<K_userId, req.user_id>>,
            <<K_query, req.query>>, <<K_flags, req.flags>>,
            <<K_initiatedAt, JStr(req.initiated_at)>> >>)

S_object_of_type ==
    T(<<"o", "b", "j", "e", "c", "t", " ", "o", "f", " ", "t", "y", "p", "e", " ", "'">>)
S_has_no_len ==
    T(<<"'", " ", "h", "a", "s", " ", "n", "o", " ", "l", "e", "n", "(", ")">>)

\* str() of the TypeError len(v) raises
Msg_no_len(v) == S_object_of_type \o PyTypeName(v) \o S_has_no_len

\* build_execution_name(prefix, search_id, user_id) for the user_id of a
\* request, a string or a value that has no length: len(user_id) raises
\* TypeError for a number, a boolean and None.
execution_name_of(prefix, search_id, user_id) ==
    CASE user_id.t = "str" ->
            Returned(JStr(build_execution_name(prefix, search_id, user_id.s)))
      [] user_id.t \in {"int", "bool", "null"} ->
            Raised("TypeError", Msg_no_len(user_id))

S_execution ==
    T(<<":", "e", "x", "e", "c", "u", "t", "i", "o", "n", ":">>)
S_echoed ==
    T(<<"e", "c", "h", "o", "e", "d", "-", "b", "y", "-", "s", "e", "r", "v", "i", "c",
        "e">>)
Msg_already_exists ==
    T(<<"A", "n", " ", "e", "r", "r", "o", "r", " ", "o", "c", "c", "u", "r", "r", "e",
        "d", " ", "(", "E", "x", "e", "c", "u", "t", "i", "o", "n", "A", "l", "r", "e",
        "a", "d", "y", "E", "x", "i", "s", "t", "s", ")", " ", "w", "h", "e", "n", " ",
        "c", "a", "l", "l", "i", "n", "g", " ", "t", "h", "e", " ", "S", "t", "a", "r",
        "t", "E", "x", "e", "c", "u", "t", "i", "o", "n", " ", "o", "p", "e", "r", "a",
        "t", "i", "o", "n", ":", " ", "E", "x", "e", "c", "u", "t", "i", "o", "n", " ",
        "A", "l", "r", "e", "a", "d", "y", " ", "E", "x", "i", "s", "t", "s">>)
Msg_throttling ==
    T(<<"A", "n", " ", "e", "r", "r", "o", "r", " ", "o", "c", "c", "u", "r", "r", "e",
        "d", " ", "(", "T", "h", "r", "o", "t", "t", "l", "i", "n", "g", "E", "x", "c",
        "e", "p", "t", "i", "o", "n", ")", " ", "w", "h", "e", "n", " ", "c", "a", "l",
        "l", "i", "n", "g", " ", "t", "h", "e", " ", "S", "t", "a", "r", "t", "E", "x",
        "e", "c", "u", "t", "i", "o", "n", " ", "o", "p", "e", "r", "a", "t", "i", "o",
        "n", ":", " ", "R", "a", "t", "e", " ", "e", "x", "c", "e", "e", "d", "e", "d">>)
Msg_service_fault ==
    T(<<"A", "n", " ", "e", "r", "r", "o", "r", " ", "o", "c", "c", "u", "r", "r", "e",
        "d", " ", "(", "I", "n", "t", "e", "r", "n", "a", "l", "F", "a", "i", "l", "u",
        "r", "e", ")", " ", "w", "h", "e", "n", " ", "c", "a", "l", "l", "i", "n", "g",
        " ", "t", "h", "e", " ", "S", "t", "a", "r", "t", "E", "x", "e", "c", "u", "t",
        "i", "o", "n", " ", "o", "p", "e", "r", "a", "t", "i", "o", "n", ":", " ", "I",
        "n", "t", "e", "r", "n", "a", "l", " ", "e", "r", "r", "o", "r">>)
Msg_endpoint ==
    T(<<"C", "o", "u", "l", "d", " ", "n", "o", "t", " ", "c", "o", "n", "n", "e", "c",
        "t", " ", "t", "o", " ", "t", "h", "e", " ", "e", "n", "d", "p", "o", "i", "n",
        "t", " ", "U", "R", "L", ":", " ", "\"", "h", "t", "t", "p", "s", ":", "/",
        "/", "s", "t", "a", "t", "e", "s", ".", "a", "m", "a", "z", "o", "n", "a", "w",
        "s", ".", "c", "o", "m", "/", "\"">>)

\* What the workflow service does with one start_execution call: it starts the
\* execution (and may echo a name of its own in the reply), or the call
\* raises ClientError (duplicate name, throttling, service fault) or
\* BotoCoreError (transport fault).
StartOutcomes ==
    { [raised |-> "", msg |-> <<>>, echo |-> FALSE],
      [raised |-> "", msg |-> <<>>, echo |-> TRUE],
      [raised |-> "ClientError", msg |-> Msg_already_exists, echo |-> FALSE],
      [raised |-> "ClientError", msg |-> Msg_throttling, echo |-> FALSE],
      [raised |-> "ClientError", msg |-> Msg_service_fault, echo |-> FALSE],
      [raised |-> "BotoCoreError", msg |-> Msg_endpoint, echo |-> FALSE] }

\* The reply of the boto3 client to start_execution(**params) where it returns.
client_start_execution(params, outcome) ==
    JObj(<< <<K_executionArn,
              JStr(Get(params, K_stateMachineArn, JNull).s \o S_execution
                   \o Get(params, K_name, JNull).s)>>,
            <<K_startDate, JStr(isoformat(0))>> >>
         \o (IF outcome.echo THEN << <<K_executionName, JStr(S_echoed)>> >> ELSE <<>>))

\* StepFunctionsExecutor(config, client).start_execution(request,
\* trace_header): calls is the sequence of calls it made on the client.
start_execution(config, request, trace_header, outcome) ==
    LET execution_input == to_stepfunctions_input(request)
        execution_name == execution_name_of(config.execution_name_prefix,
                                            request.search_id,
                                            request.user_id)
        params ==
            JObj(<< <<K_stateMachineArn, JStr(config.state_machine_arn)>>,
                    <<K_name, execution_name.v>>,
                    <<K_input, JStr(json_dumps(execution_input))>> >>
                 \o (IF Truthy(trace_header)
                     THEN << <<K_traceHeader, trace_header>> >> ELSE <<>>))
    IN  IF ~execution_name.ok
        THEN [ok |-> FALSE, err |-> execution_name.err, msg |-> execution_name.msg,
              response |-> JNull, calls |-> <<>>]
        ELSE IF outcome.raised # ""
        THEN [ok |-> FALSE, err |-> "WorkflowStartError", msg |-> outcome.msg,
              response |-> JNull, calls |-> <<params>>]
        ELSE [ok |-> TRUE, err |-> "", msg |-> <<>>,
              response |-> SetItem(client_start_execution(params, outcome),
                                   K_executionName, execution_name.v),
              calls |-> <<params>>]

(***************************************************************************)
(* Specification of stepfunctions_client.py: an event is parsed and the    *)
(* request is handed to StepFunctionsExecutor.start_execution              *)
(***************************************************************************)

S_long_user ==
    T(<<"u", "s", "e", "r", "_", "0", "1", "2", "3", "4", "5", "6", "7", "8", "9", "-",
        "a", "b", "c", "d", "e", "f", "g", "h", "i", "j">>)
S_trace ==
    T(<<"R", "o", "o", "t", "=", "1", "-", "5", "e", "1", "b", "4", "1", "5", "1">>)

ExecPayloads ==
    {Fields(<< <<K_query, JStr(S_find)>>, <<K_userId, u>>, <<K_flags, f>> >>) :
        u \in UserIdValues \cup {JStr(S_long_user), JStr(<<233, 32, 97>>)},
        f \in {Absent, JObj(<< <<K_reasoning, JBool(TRUE)>> >>)}}

ExecEvents ==
    {GatewayEvent(p, Absent, c) :
        p \in ExecPayloads,
        c \in {Absent, Authorizer(JStr(S_u2)), Authorizer(JInt(42)),
               Authorizer(JStr(<<32>>))}}

TraceHeaders == {JNull, JStr(<<>>), JStr(S_trace)}

InitExec ==
    /\ parse_in \in ExecEvents
    /\ parse_ret = NoCall
    /\ environ \in Environments
    /\ IdleName
    /\ IdleExec
    /\ IdleHandler
    /\ uuids = {}

\* start_execution on the request parse_event returned, by an executor built
\* on Config.load()
StartExecution ==
    /\ parse_ret.called /\ parse_ret.ok
    /\ ~exec_ret.called
    /\ Config_load(environ).ok
    /\ \E trace_header \in TraceHeaders, outcome \in StartOutcomes :
         \E r \in {start_execution(Config_load(environ).cfg, parse_ret.req,
                                   trace_header, outcome)} :
            /\ exec_ret' = [called |-> TRUE, ok |-> r.ok, err |-> r.err,
                            msg |-> r.msg, response |-> r.response,
                            outcome |-> outcome, trace_header |-> trace_header]
            /\ client_calls' = client_calls \o r.calls
    /\ UNCHANGED <<nameVars, parseVars, uuids, environ, handlerVars>>

NextExec == ParseEvent \/ StartExecution

SpecExec == InitExec /\ [][NextExec]_vars

\* The name build_execution_name derives for the request that was parsed.
DerivedName ==
    execution_name_of(Config_load(environ).cfg.execution_name_prefix,
                      parse_ret.req.search_id, parse_ret.req.user_id).v

StartedOnce ==
    /\ Len(client_calls) = 1
    /\ exec_ret.outcome.raised # "" =>
          /\ ~exec_ret.ok
          /\ exec_ret.err = "WorkflowStartError"
          /\ exec_ret.msg = exec_ret.outcome.msg
    /\ exec_ret.outcome.raised = "" =>
          /\ exec_ret.ok
          /\ Get(exec_ret.response, K_executionName, JNull) = DerivedName

\* C10: start_execution makes exactly one call on the client; every failure of
\* that call is raised as WorkflowStartError with the message of the failure;
\* where the call succeeds the executionName returned is the name derived from
\* the prefix, the search id and the user id, whatever the service replied.
C10_SingleStart == exec_ret.called => StartedOnce

\* What the code keeps of C10: all of it, for the requests whose user_id is a
\* string.
StartedOnceForStrings ==
    (exec_ret.called /\ parse_ret.req.user_id.t = "str") => StartedOnce

\* A request with a string user_id started while the service echoes another
\* name, and one whose start the service refused as a duplicate.
StartedWitness ==
    /\ exec_ret.called
    /\ parse_ret.req.user_id.t = "str"
    /\ \/ exec_ret.outcome.echo
       \/ exec_ret.outcome.msg = Msg_already_exists

(***************************************************************************)
(* lambda_handler.py                                                       *)
(***************************************************************************)

K_statusCode ==
    T(<<"s", "t", "a", "t", "u", "s", "C", "o", "d", "e">>)
K_headers ==
    T(<<"h", "e", "a", "d", "e", "r", "s">>)
K_error ==
    T(<<"e", "r", "r", "o", "r">>)
K_success ==
    T(<<"s", "u", "c", "c", "e", "s", "s">>)
K_status ==
    T(<<"s", "t", "a", "t", "u", "s">>)
K_message ==
    T(<<"m", "e", "s", "s", "a", "g", "e">>)
K_timestamp ==
    T(<<"t", "i", "m", "e", "s", "t", "a", "m", "p">>)
K_Content_Type ==
    T(<<"C", "o", "n", "t", "e", "n", "t", "-", "T", "y", "p", "e">>)
K_Allow_Origin ==
    T(<<"A", "c", "c", "e", "s", "s", "-", "C", "o", "n", "t", "r", "o", "l", "-", "A",
        "l", "l", "o", "w", "-", "O", "r", "i", "g", "i", "n">>)
K_Allow_Methods ==
    T(<<"A", "c", "c", "e", "s", "s", "-", "C", "o", "n", "t", "r", "o", "l", "-", "A",
        "l", "l", "o", "w", "-", "M", "e", "t", "h", "o", "d", "s">>)
K_Allow_Headers ==
    T(<<"A", "c", "c", "e", "s", "s", "-", "C", "o", "n", "t", "r", "o", "l", "-", "A",
        "l", "l", "o", "w", "-", "H", "e", "a", "d", "e", "r", "s">>)
K_id ==
    T(<<"_", "i", "d">>)
K_createdAt ==
    T(<<"c", "r", "e", "a", "t", "e", "d", "A", "t">>)
K_updatedAt ==
    T(<<"u", "p", "d", "a", "t", "e", "d", "A", "t">>)
K_events ==
    T(<<"e", "v", "e", "n", "t", "s">>)
K_metrics ==
    T(<<"m", "e", "t", "r", "i", "c", "s">>)
K_stage ==
    T(<<"s", "t", "a", "g", "e">>)
K_occurredAt ==
    T(<<"o", "c", "c", "u", "r", "r", "e", "d", "A", "t">>)
K_stepFunctionsExecutionArn ==
    T(<<"s", "t", "e", "p", "F", "u", "n", "c", "t", "i", "o", "n", "s", "E", "x", "e",
        "c", "u", "t", "i", "o", "n", "A", "r", "n">>)
K_httpMethod ==
    T(<<"h", "t", "t", "p", "M", "e", "t", "h", "o", "d">>)
S_test_user ==
    T(<<"t", "e", "s", "t", "_", "u", "s", "e", "r">>)
S_NEW ==
    T(<<"N", "E", "W">>)
S_ERROR ==
    T(<<"E", "R", "R", "O", "R">>)
S_INIT ==
    T(<<"I", "N", "I", "T">>)
S_Search_initiated ==
    T(<<"S", "e", "a", "r", "c", "h", " ", "i", "n", "i", "t", "i", "a", "t", "e", "d">>)
S_initiated ==
    T(<<"i", "n", "i", "t", "i", "a", "t", "e", "d">>)
S_pipeline_started ==
    T(<<"S", "e", "a", "r", "c", "h", " ", "p", "i", "p", "e", "l", "i", "n", "e", " ",
        "s", "t", "a", "r", "t", "e", "d", " ", "s", "u", "c", "c", "e", "s", "s", "f",
        "u", "l", "l", "y">>)
S_application_json ==
    T(<<"a", "p", "p", "l", "i", "c", "a", "t", "i", "o", "n", "/", "j", "s", "o", "n">>)
S_POST_OPTIONS ==
    T(<<"P", "O", "S", "T", ",", " ", "O", "P", "T", "I", "O", "N", "S">>)
S_Content_Type_Authorization ==
    T(<<"C", "o", "n", "t", "e", "n", "t", "-", "T", "y", "p", "e", ",", " ", "A", "u",
        "t", "h", "o", "r", "i", "z", "a", "t", "i", "o", "n">>)
S_search_dash ==
    T(<<"s", "e", "a", "r", "c", "h", "-">>)
S_OPTIONS ==
    T(<<"O", "P", "T", "I", "O", "N", "S">>)
Msg_missing_query ==
    T(<<"M", "i", "s", "s", "i", "n", "g", " ", "r", "e", "q", "u", "i", "r", "e", "d",
        " ", "f", "i", "e", "l", "d", ":", " ", "q", "u", "e", "r", "y">>)
Msg_missing_user ==
    T(<<"M", "i", "s", "s", "i", "n", "g", " ", "u", "s", "e", "r", " ", "a", "u", "t",
        "h", "e", "n", "t", "i", "c", "a", "t", "i", "o", "n">>)
Msg_create_failed ==
    T(<<"F", "a", "i", "l", "e", "d", " ", "t", "o", " ", "c", "r", "e", "a", "t", "e",
        " ", "s", "e", "a", "r", "c", "h", " ", "d", "o", "c", "u", "m", "e", "n", "t",
        ":", " ">>)
Msg_start_failed ==
    T(<<"F", "a", "i", "l", "e", "d", " ", "t", "o", " ", "s", "t", "a", "r", "t", " ",
        "s", "e", "a", "r", "c", "h", " ", "e", "x", "e", "c", "u", "t", "i", "o", "n",
        ":", " ">>)
Msg_sf_failed ==
    T(<<"F", "a", "i", "l", "e", "d", " ", "t", "o", " ", "s", "t", "a", "r", "t", " ",
        "S", "t", "e", "p", " ", "F", "u", "n", "c", "t", "i", "o", "n", "s", ":", " ">>)
Msg_init_failed ==
    T(<<"S", "e", "a", "r", "c", "h", " ", "i", "n", "i", "t", "i", "a", "l", "i", "z",
        "a", "t", "i", "o", "n", " ", "f", "a", "i", "l", "e", "d", ":", " ">>)
Msg_db_timeout ==
    T(<<"d", "b", ":", "2", "7", "0", "1", "7", ":", " ", "[", "E", "r", "r", "n", "o",
        " ", "1", "1", "1", "]", " ", "C", "o", "n", "n", "e", "c", "t", "i", "o", "n",
        " ", "r", "e", "f", "u", "s", "e", "d">>)
Msg_invalid_arn ==
    T(<<"A", "n", " ", "e", "r", "r", "o", "r", " ", "o", "c", "c", "u", "r", "r", "e",
        "d", " ", "(", "I", "n", "v", "a", "l", "i", "d", "A", "r", "n", ")", " ", "w",
        "h", "e", "n", " ", "c", "a", "l", "l", "i", "n", "g", " ", "t", "h", "e", " ",
        "S", "t", "a", "r", "t", "E", "x", "e", "c", "u", "t", "i", "o", "n", " ", "o",
        "p", "e", "r", "a", "t", "i", "o", "n", ":", " ", "I", "n", "v", "a", "l", "i",
        "d", " ", "A", "r", "n">>)

\* datetime.utcnow().isoformat() at the n-th second of the model's clock; a
\* datetime stored in a document is written as this text.
utcnow(n) == S_date \o Digits(n)

\* The module's global: os.getenv("LOGICAL_SEARCH_STATE_MACHINE_ARN") when the
\* module is imported, None where the variable is not set.
state_machine_arn_at_import(env) ==
    IF env["LOGICAL_SEARCH_STATE_MACHINE_ARN"].set
    THEN JStr(env["LOGICAL_SEARCH_STATE_MACHINE_ARN"].v)
    ELSE JNull

\* create_initial_search_document(search_id, user_id, query, flags)
create_initial_search_document(search_id, user_id, query, flags, now) ==
    JObj(<< <<K_id, JStr(search_id)>>, <<K_userId, user_id>>, <<K_query, query>>,
            <<K_flags, flags>>, <<K_status, JStr(S_NEW)>>,
            <<K_createdAt, JStr(now)>>, <<K_updatedAt, JStr(now)>>,
            <<K_events, JList(<< JObj(<< <<K_stage, JStr(S_INIT)>>,
                                         <<K_message, JStr(S_Search_initiated)>>,
                                         <<K_timestamp, JStr(now)>> >>) >>)>>,
            <<K_metrics, JObj(<<>>)>> >>)

\* collection.update_one({"_id": search_id}, {"$set": fields}) on the documents
\* docs: the fields are set on the document of that id.
RECURSIVE SetAll(_, _, _)
SetAll(doc, fields, i) ==
    IF i > Len(fields) THEN doc
    ELSE SetAll(SetItem(doc, fields[i][1], fields[i][2]), fields, i + 1)

\* An update_one that finds no document and changes nothing.
update_one_nothing(docs, search_id, fields) == docs

\* searchOutputCollection.update_one({"_id": search_id}, {"$set": fields})
update_one(docs, search_id, fields) ==
    [i \in 1..Len(docs) |->
        IF Get(docs[i], K_id, JNull) = JStr(search_id)
           /\ \A j \in 1..(i - 1) : Get(docs[j], K_id, JNull) # JStr(search_id)
        THEN SetAll(docs[i], fields, 1)
        ELSE docs[i]]

\* What a call on the store or on the workflow service does: it returns, or
\* it raises an exception whose str() is msg.
Returns == [raised |-> "", msg |-> <<>>, echo |-> FALSE]
DbOutcomes ==
    {Returns, [raised |-> "ServerSelectionTimeoutError", msg |-> Msg_db_timeout,
               echo |-> FALSE]}

\* The workflow service starts executions of the one state machine there is,
\* S_arn, and refuses any other identifier.
service_start(arn, outcome) ==
    IF arn # JStr(S_arn)
    THEN [raised |-> "ClientError", msg |-> Msg_invalid_arn, echo |-> FALSE]
    ELSE outcome

\* lines 79-98 of lambda_handler: the user_id, query and flags read from the
\* event (a dict), or the exception raised while reading them.
handler_input(ev) ==
    LET Read(user_id, query, flags) ==
            IF ~flags.ok THEN [ok |-> FALSE, err |-> flags.err, msg |-> flags.msg,
                               user_id |-> JNull, query |-> JNull, flags |-> JNull]
            ELSE [ok |-> TRUE, err |-> "", msg |-> <<>>,
                  user_id |-> user_id, query |-> query, flags |-> flags.v]
        Failed(e) == [ok |-> FALSE, err |-> e.err, msg |-> e.msg,
                      user_id |-> JNull, query |-> JNull, flags |-> JNull]
        WithQuery(body, user_id, query) ==
            IF ~query.ok THEN Failed(query)
            ELSE Read(user_id, query.v, PyGet(body, K_flags, JObj(<<>>)))
        WithUserId(body, user_id) ==
            IF ~user_id.ok THEN Failed(user_id)
            ELSE WithQuery(body, user_id.v, PyGet(body, K_query, JNull))
        WithAuthorizer(body, auth) ==
            IF ~auth.ok THEN Failed(auth)
            ELSE WithUserId(body, IF Truthy(auth.v) THEN auth
                                  ELSE PyGet(body, K_userId, JStr(S_test_user)))
        WithLoaded(loaded) ==
            IF ~loaded.ok THEN Failed([err |-> "JSONDecodeError", msg |-> loaded.msg])
            ELSE WithAuthorizer(loaded.v, authorizer_user_id(ev))
        WithRaw(raw) ==
            IF raw.t = "str" THEN WithLoaded(json_loads(raw.s))
            ELSE WithAuthorizer(raw, authorizer_user_id(ev))
    IN  IF HasKey(ev, K_body) THEN WithRaw(Get(ev, K_body, JNull))
        ELSE WithUserId(ev, PyGet(ev, K_userId, JNull))

\* An entry of the log of external calls: the call and how it ended.
Called(call, outcome) == [call |-> call, raised |-> outcome.raised, msg |-> outcome.msg]

\* The response dict of an error: statusCode and body only.
error_response(status, fields) ==
    JObj(<< <<K_statusCode, JInt(status)>>, <<K_body, JStr(json_dumps(JObj(fields)))>> >>)

\* lambda_handler(event, context) on the documents docs, with the global arn,
\* where uuid.uuid4() gives uuid, the clock reads now, and the calls on the
\* store and on the workflow service end as fate says.  Each step of the
\* function is a local operator that takes what the steps before it computed;
\* drew tells whether uuid.uuid4() was reached.
lambda_handler(ev, arn, docs, uuid, now, fate) ==
    LET Done(resp, docs2, started, calls, drew) ==
            [response |-> resp, docs |-> docs2, started |-> started,
             effects |-> calls, drew |-> drew]
        \* lines 234-243
        Unclassified(msg, docs2, started, calls, drew) ==
            Done(error_response(500, << <<K_error, JStr(Msg_init_failed \o msg)>>,
                                        <<K_success, JBool(FALSE)>>,
                                        <<K_timestamp, JStr(now)>> >>),
                 docs2, started, calls, drew)
        \* lines 215-232
        Succeeded(query, final_flags, docs2, started, calls) ==
            Done(JObj(<< <<K_statusCode, JInt(200)>>,
                         <<K_headers,
                           JObj(<< <<K_Content_Type, JStr(S_application_json)>>,
                                   <<K_Allow_Origin, JStr(S_star)>>,
                                   <<K_Allow_Methods, JStr(S_POST_OPTIONS)>>,
                                   <<K_Allow_Headers,
                                     JStr(S_Content_Type_Authorization)>> >>)>>,
                         <<K_body,
                           JStr(json_dumps(JObj(
                               << <<K_searchId, JStr(uuid)>>,
                                  <<K_status, JStr(S_initiated)>>,
                                  <<K_message, JStr(S_pipeline_started)>>,
                                  <<K_query, query>>,
                                  <<K_flags, final_flags>>,
                                  <<K_success, JBool(TRUE)>>,
                                  <<K_timestamp, JStr(now)>> >>)))>> >>),
                 docs2, started, calls, TRUE)
        \* lines 186-210
        StartFailed(msg, docs2, started, calls) ==
            IF fate.mark.raised # ""
            THEN Unclassified(fate.mark.msg, docs2, started,
                              Append(calls, Called("update_one", fate.mark)), TRUE)
            ELSE Done(error_response(500,
                          << <<K_error, JStr(Msg_start_failed \o msg)>>,
                             <<K_searchId, JStr(uuid)>>,
                             <<K_success, JBool(FALSE)>> >>),
                      update_one(docs2, uuid,
                          << <<K_status, JStr(S_ERROR)>>,
                             <<K_error,
                               JObj(<< <<K_stage, JStr(S_INIT)>>,
                                       <<K_message, JStr(Msg_sf_failed \o msg)>>,
                                       <<K_occurredAt, JStr(now)>> >>)>> >>),
                      started, Append(calls, Called("update_one", fate.mark)), TRUE)
        \* lines 172-184
        Started(query, final_flags, docs2, execution, calls) ==
            IF fate.update.raised # ""
            THEN StartFailed(fate.update.msg, docs2, {execution},
                             Append(calls, Called("update_one", fate.update)))
            ELSE Succeeded(query, final_flags,
                     update_one(docs2, uuid,
                         << <<K_stepFunctionsExecutionArn,
                              JStr(arn.s \o S_execution \o execution.name)>>,
                            <<K_updatedAt, JStr(now)>> >>),
                     {execution}, Append(calls, Called("update_one", fate.update)))
        \* lines 154-170
        Start(query, final_flags, docs2, calls, sf_input, result) ==
            IF result.raised # ""
            THEN StartFailed(result.msg, docs2, {},
                             Append(calls, Called("start_execution", result)))
            ELSE Started(query, final_flags, docs2,
                         [name |-> S_search_dash \o uuid,
                          input |-> json_dumps(sf_input)],
                         Append(calls, Called("start_execution", result)))
        \* lines 138-163, 211-212
        Insert(user_id, query, final_flags, search_doc) ==
            IF fate.insert.raised # ""
            THEN Done(error_response(500,
                          << <<K_error, JStr(Msg_create_failed \o fate.insert.msg)>>,
                             <<K_success, JBool(FALSE)>> >>),
                      docs, {}, <<Called("insert_one", fate.insert)>>, TRUE)
            ELSE IF Truthy(arn)
            THEN Start(query, final_flags, Append(docs, search_doc),
                       <<Called("insert_one", fate.insert)>>,
                       JObj(<< <<K_searchId, JStr(uuid)>>, <<K_userId, user_id>>,
                               <<K_query, query>>, <<K_flags, final_flags>>,
                               <<K_initiatedAt, JStr(now)>> >>),
                       service_start(arn, fate.start))
            ELSE Succeeded(query, final_flags, Append(docs, search_doc), {},
                           <<Called("insert_one", fate.insert)>>)
        \* lines 120-138
        Merge(user_id, query, final_flags) ==
            IF ~final_flags.ok THEN Unclassified(final_flags.msg, docs, {}, <<>>, TRUE)
            ELSE Insert(user_id, query, final_flags.v,
                        create_initial_search_document(uuid, user_id, query,
                                                       final_flags.v, now))
        \* lines 100-117
        Validate(input) ==
            IF ~input.ok THEN Unclassified(input.msg, docs, {}, <<>>, FALSE)
            ELSE IF ~Truthy(input.query)
            THEN Done(error_response(400, << <<K_error, JStr(Msg_missing_query)>>,
                                             <<K_success, JBool(FALSE)>> >>),
                      docs, {}, <<>>, FALSE)
            ELSE IF ~Truthy(input.user_id)
            THEN Done(error_response(400, << <<K_error, JStr(Msg_missing_user)>>,
                                             <<K_success, JBool(FALSE)>> >>),
                      docs, {}, <<>>, FALSE)
            ELSE Merge(input.user_id, input.query,
                       merge_flags(default_flags, input.flags))
    IN  Validate(handler_input(ev))

(***************************************************************************)
(* Specification of lambda_handler.py: the module is imported in an        *)
(* environment and lambda_handler is invoked on events                     *)
(***************************************************************************)

\* The number of invocations of one process of the model.
MaxInvocations == 1

S_u1 == T(<<"u", "1">>)
S_x == T(<<"x">>)

\* A preflight request as the caller of the function sends it, and as the API
\* gateway forwards it (with a null body).
OptionsEvent == JObj(<< <<K_httpMethod, JStr(S_OPTIONS)>> >>)
GatewayOptionsEvent ==
    JObj(<< <<K_httpMethod, JStr(S_OPTIONS)>>, <<K_body, JNull>>,
            <<K_requestContext, JObj(<<>>)>> >>)

Payload(query, user_id, flags) ==
    Fields(<< <<K_query, query>>, <<K_userId, user_id>>, <<K_flags, flags>> >>)

\* The events of the model: preflight requests; direct events that are valid,
\* lack the query, hold a blank query, lack the user, hold null flags; gateway
\* events with a JSON text body (with and without a user), a dict body, an
\* empty query, no query, broken JSON, JSON that is no object, a base64 body,
\* and a numeric user id from the authorizer.
HandlerEvents ==
    { OptionsEvent,
      GatewayOptionsEvent,
      DirectEvent(Payload(JStr(S_find), JStr(S_u1),
                          JObj(<< <<K_reasoning, JBool(TRUE)>> >>)), Absent),
      DirectEvent(Payload(Absent, JStr(S_u1), Absent), Absent),
      DirectEvent(Payload(JStr(<<32, 32>>), JStr(S_u1), Absent), Absent),
      DirectEvent(Payload(JStr(S_x), Absent, Absent), Absent),
      DirectEvent(Payload(JStr(S_x), JStr(S_u1), JNull), Absent),
      GatewayEvent(JStr(json_dumps(Payload(JStr(S_x), Absent,
                                           JObj(<< <<K_hyde_provider, JStr(S_openai)>> >>)))),
                   Absent, Authorizer(JStr(S_u2))),
      GatewayEvent(JStr(json_dumps(Payload(JStr(S_x), Absent, Absent))), Absent, Absent),
      GatewayEvent(Payload(JStr(<<>>), JStr(S_u1), Absent), Absent, Authorizer(JStr(S_u2))),
      GatewayEvent(JStr(T(<<"{", "}">>)), Absent, Authorizer(JStr(S_u2))),
      GatewayEvent(JStr(T(<<"{">>)), Absent, Authorizer(JStr(S_u2))),
      GatewayEvent(JStr(T(<<"[", "]">>)), Absent, Absent),
      GatewayEvent(JStr(b64encode(utf8_encode(json_dumps(
                       Payload(JStr(S_x), JStr(S_u1), Absent))))),
                   JBool(TRUE), Authorizer(JStr(S_u2))),
      GatewayEvent(Payload(JStr(S_x), Absent, Absent), Absent, Authorizer(JInt(42))) }

\* How the calls of one invocation on the store and the service end.
Fates ==
    [insert : DbOutcomes, start : {o \in StartOutcomes : ~o.echo},
     update : DbOutcomes, mark : DbOutcomes]

Init ==
    /\ environ \in Environments
    /\ STATE_MACHINE_ARN = state_machine_arn_at_import(environ)
    /\ searchOutputCollection = <<>>
    /\ executions = {}
    /\ handler_event = NoCall
    /\ response = NoCall
    /\ effects = <<>>
    /\ invocations = 0
    /\ uuids = {}
    /\ IdleName
    /\ IdleParse
    /\ IdleExec

\* One invocation of lambda_handler(event, context).
LambdaHandler ==
    /\ invocations < MaxInvocations
    /\ \E ev \in HandlerEvents, uuid \in UuidPool \ uuids, fate \in Fates :
         \E r \in {lambda_handler(ev, STATE_MACHINE_ARN, searchOutputCollection,
                                  uuid, utcnow(invocations), fate)} :
            /\ handler_event' = ev
            /\ response' = r.response
            /\ searchOutputCollection' = r.docs
            /\ executions' = executions \cup r.started
            /\ effects' = r.effects
            /\ uuids' = IF r.drew THEN uuids \cup {uuid} ELSE uuids
    /\ invocations' = invocations + 1
    /\ UNCHANGED <<nameVars, parseVars, execVars, environ, STATE_MACHINE_ARN>>

Next == LambdaHandler

Spec == Init /\ [][Next]_vars

\* The parts of the last response.
Handled == invocations > 0
StatusCode == Get(response, K_statusCode, JNull)
Headers == Get(response, K_headers, Absent)
BodyText == Get(response, K_body, JNull)
Body == json_loads(BodyText.s).v
ErrorText == Get(Body, K_error, JStr(<<>>)).s

\* sub in text, for two strings
Contains(text, sub) ==
    \E i \in 1..(Len(text) - Len(sub) + 1) : SubSeq(text, i, i + Len(sub) - 1) = sub

\* C1: an event whose httpMethod is OPTIONS is answered 204 with an empty
\* body and an Access-Control-Allow-Origin header, and nothing is validated,
\* written or started on that invocation.
C1_OptionsShortCircuit ==
    (Handled /\ Get(handler_event, K_httpMethod, JNull) = JStr(S_OPTIONS)) =>
        /\ StatusCode = JInt(204)
        /\ BodyText = JStr(<<>>)
        /\ Headers.t = "obj" /\ HasKey(Headers, K_Allow_Origin)
        /\ effects = <<>>
        /\ searchOutputCollection = <<>>
        /\ executions = {}

\* What the code keeps of C1: nothing is written or started for the preflight
\* events of the model.
OptionsNoEffects ==
    (Handled /\ Get(handler_event, K_httpMethod, JNull) = JStr(S_OPTIONS)) =>
        /\ effects = <<>>
        /\ searchOutputCollection = <<>>
        /\ executions = {}

\* The failures of the last invocation.
InputRaised == ~handler_input(handler_event).ok
ValidationFailed ==
    /\ handler_input(handler_event).ok
    /\ \/ ~Truthy(handler_input(handler_event).query)
       \/ ~Truthy(handler_input(handler_event).user_id)
MergeRaised ==
    /\ handler_input(handler_event).ok
    /\ ~ValidationFailed
    /\ ~merge_flags(default_flags, handler_input(handler_event).flags).ok
StartCallFailed ==
    \E i \in 1..Len(effects) :
        effects[i].call = "start_execution" /\ effects[i].raised # ""
StartCallMessage ==
    effects[CHOOSE i \in 1..Len(effects) : effects[i].call = "start_execution"].msg

\* C2: a failed invocation maps its failure to a fixed status: validation
\* 400, configuration 500, a failed workflow start call 502, any other
\* exception 500; outside validation the message does not contain the text of
\* the underlying exception.
C2_StatusMapping ==
    Handled =>
        /\ ValidationFailed => StatusCode = JInt(400)
        /\ ~Config_load(environ).ok =>
              /\ StatusCode = JInt(500)
              /\ ~Contains(ErrorText, Config_load(environ).msg)
        /\ StartCallFailed =>
              /\ StatusCode = JInt(502)
              /\ ~Contains(ErrorText, StartCallMessage)
        /\ InputRaised =>
              /\ StatusCode = JInt(500)
              /\ ~Contains(ErrorText, handler_input(handler_event).msg)

\* What the code keeps of C2: the two 400s, and 500 for an exception raised
\* while the event is read or the flags are merged and for a failed start call.
StatusKept ==
    Handled =>
        /\ ValidationFailed => StatusCode = JInt(400)
        /\ (InputRaised \/ MergeRaised \/ StartCallFailed) => StatusCode = JInt(500)

\* The query of the payload of an event is absent, null, or blank.
QueryMissing(ev) ==
    /\ extract_body(ev).ok
    /\ extract_body(ev).v.t = "obj"
    /\ \/ Get(extract_body(ev).v, K_query, JNull).t = "null"
       \/ /\ Get(extract_body(ev).v, K_query, JNull).t = "str"
          /\ Strip(Get(extract_body(ev).v, K_query, JNull).s) = <<>>

\* C3: for an event of either shape whose query is absent or blank, the
\* normalization raises a validation error and the response is 400 with
\* success false and an error field, whether or not a user id is there.
C3_MissingQuery ==
    (Handled /\ QueryMissing(handler_event)) =>
        /\ ~validated_event(handler_event).ok
        /\ validated_event(handler_event).err = "RequestValidationError"
        /\ StatusCode = JInt(400)
        /\ Get(Body, K_success, JNull) = JBool(FALSE)
        /\ HasKey(Body, K_error)

\* What the code keeps of C3: the normalization raises a validation error for
\* these events, and an event whose query is absent or empty is answered 400.
MissingQueryKept ==
    (Handled /\ QueryMissing(handler_event)) =>
        /\ ~validated_event(handler_event).ok
        /\ validated_event(handler_event).err = "RequestValidationError"
        /\ ~Truthy(Get(extract_body(handler_event).v, K_query, JNull)) =>
              /\ StatusCode = JInt(400)
              /\ Get(Body, K_success, JNull) = JBool(FALSE)
              /\ HasKey(Body, K_error)

\* C4: every response carries the three CORS headers and Content-Type, and a
\* body whose success field is a boolean.
C4_Envelope ==
    Handled =>
        /\ Headers.t = "obj"
        /\ HasKey(Headers, K_Allow_Origin)
        /\ HasKey(Headers, K_Allow_Headers)
        /\ HasKey(Headers, K_Allow_Methods)
        /\ HasKey(Headers, K_Content_Type)
        /\ Get(Body, K_success, JNull).t = "bool"

\* What the code keeps of C4: the body of every response is a JSON object
\* with a boolean success, true exactly for 200, and the 200 response carries
\* the four headers.
EnvelopeKept ==
    Handled =>
        /\ Body.t = "obj"
        /\ Get(Body, K_success, JNull) = JBool(StatusCode = JInt(200))
        /\ StatusCode = JInt(200) =>
              /\ Headers.t = "obj"
              /\ HasKey(Headers, K_Allow_Origin)
              /\ HasKey(Headers, K_Allow_Headers)
              /\ HasKey(Headers, K_Allow_Methods)
              /\ HasKey(Headers, K_Content_Type)

\* The workflow identifier of the environment is absent or blank.
ArnBlank == Strip(getenv(environ, "LOGICAL_SEARCH_STATE_MACHINE_ARN", <<>>)) = <<>>

ConfigLoaded ==
    IF ArnBlank
    THEN /\ ~Config_load(environ).ok
         /\ Config_load(environ).err = "ConfigurationError"
    ELSE /\ Config_load(environ).ok
         /\ Config_load(environ).cfg.state_machine_arn
               = Strip(environ["LOGICAL_SEARCH_STATE_MACHINE_ARN"].v)
         /\ ~environ["EXECUTION_NAME_PREFIX"].set =>
               Config_load(environ).cfg.execution_name_prefix = S_search_exec
         /\ ~environ["CORS_ALLOWED_ORIGIN"].set =>
               Config_load(environ).cfg.cors_allowed_origin = S_star

\* C9: where the workflow identifier is absent or blank, loading the
\* configuration raises a configuration error and no invocation ends in a
\* success response; where it is there, loading returns the trimmed
\* identifier, the prefix search-exec and the origin * by default.
C9_MandatoryArn ==
    /\ ConfigLoaded
    /\ (ArnBlank /\ Handled) =>
          /\ StatusCode # JInt(200)
          /\ Get(Body, K_success, JNull) # JBool(TRUE)

\* What the code keeps of C9: Config.load, and no workflow is started where
\* the identifier is absent or blank.
ConfigKept == ConfigLoaded /\ (ArnBlank => executions = {})

(***************************************************************************)
(* Sequences of requests in one process                                    *)
(***************************************************************************)

\* The number of requests one process accepts in the model.
MaxRequests == 2

\* A text of the caller's that is no uuid.
S_mine == T(<<"m", "i", "n", "e">>)

\* A payload in which the caller supplies a searchId and an _id of its own.
IdPayload(id) ==
    Fields(<< <<K_query, JStr(S_x)>>, <<K_userId, JStr(S_u1)>>,
              <<K_searchId, JStr(id)>>, <<K_id, JStr(id)>> >>)

\* The events given to parse_event: a direct event whose searchId has the shape
\* of a uuid (one uuid.uuid4() can return too), a gateway event whose searchId
\* has not, an event without a searchId and an event without a query.
RequestEvents ==
    {DirectEvent(IdPayload(Uuid(1, 1)), Absent),
     GatewayEvent(JStr(json_dumps(IdPayload(S_mine))), Absent, Authorizer(JStr(S_u2))),
     DirectEvent(Payload(JStr(S_x), JStr(S_u1), Absent), Absent),
     DirectEvent(Payload(Absent, JStr(S_u1), Absent), Absent)}

\* The events given to lambda_handler: direct events with ids of the caller's.
HandledEvents == {DirectEvent(IdPayload(id), Absent) : id \in {Uuid(1, 1), S_mine}}

\* Every call on the store and on the workflow service returns.
AllReturn == [insert |-> Returns, start |-> Returns, update |-> Returns, mark |-> Returns]

\* A process whose environment holds the workflow identifier.
InitRequests ==
    /\ environ \in {e \in Environments :
                      /\ e.LOGICAL_SEARCH_STATE_MACHINE_ARN = SetTo(S_arn)
                      /\ e.EXECUTION_NAME_PREFIX = Unset
                      /\ e.CORS_ALLOWED_ORIGIN = Unset}
    /\ STATE_MACHINE_ARN = state_machine_arn_at_import(environ)
    /\ searchOutputCollection = <<>>
    /\ executions = {}
    /\ handler_event = NoCall
    /\ response = NoCall
    /\ effects = <<>>
    /\ invocations = 0
    /\ uuids = {}
    /\ IdleName
    /\ IdleParse
    /\ IdleExec

\* One more call of parse_event(event, config) in the process.
ParseRequest ==
    /\ Cardinality(uuids) < MaxRequests
    /\ \E ev \in RequestEvents, uuid \in UuidPool \ uuids :
         \E r \in {parse_event(ev, uuid, isoformat(0))} :
            /\ parse_in' = ev
            /\ parse_ret' = [called |-> TRUE, ok |-> r.ok, err |-> r.err,
                             msg |-> r.msg, req |-> r.req]
            /\ uuids' = IF r.ok THEN uuids \cup {uuid} ELSE uuids
    /\ UNCHANGED <<nameVars, environ, execVars, handlerVars>>

\* One more invocation of lambda_handler(event, context) in the process.
HandleRequest ==
    /\ Cardinality(uuids) < MaxRequests
    /\ \E ev \in HandledEvents, uuid \in UuidPool \ uuids :
         \E r \in {lambda_handler(ev, STATE_MACHINE_ARN, searchOutputCollection,
                                  uuid, utcnow(invocations), AllReturn)} :
            /\ handler_event' = ev
            /\ response' = r.response
            /\ searchOutputCollection' = r.docs
            /\ executions' = executions \cup r.started
            /\ effects' = r.effects
            /\ uuids' = IF r.drew THEN uuids \cup {uuid} ELSE uuids
    /\ invocations' = invocations + 1
    /\ UNCHANGED <<nameVars, parseVars, execVars, environ, STATE_MACHINE_ARN>>

NextRequests == ParseRequest \/ HandleRequest

SpecRequests == InitRequests /\ [][NextRequests]_vars

\* The search ids of the documents in the store.
StoredIds == {Get(searchOutputCollection[i], K_id, JNull) : i \in 1..Len(searchOutputCollection)}

\* C11: the search id of every accepted request is the value uuid.uuid4() gave,
\* not one of the caller's: it is a non-empty text that no earlier request of
\* the process has, whether parse_event or lambda_handler accepted the request;
\* lambda_handler stores it as the document's _id and answers it as searchId.
C11_FreshSearchIds ==
    [][ /\ (parse_ret' # parse_ret /\ parse_ret'.called /\ parse_ret'.ok) =>
              /\ parse_ret'.req.search_id # <<>>
              /\ parse_ret'.req.search_id \notin uuids
              /\ uuids' = uuids \cup {parse_ret'.req.search_id}
        /\ (invocations' > invocations /\ Get(response', K_statusCode, JNull) = JInt(200)) =>
              /\ Len(searchOutputCollection') = Len(searchOutputCollection) + 1
              /\ \E doc \in {searchOutputCollection'[Len(searchOutputCollection')]} :
                    /\ Get(doc, K_id, JNull).t = "str"
                    /\ Get(doc, K_id, JNull).s # <<>>
                    /\ Get(doc, K_id, JNull).s \notin uuids
                    /\ uuids' = uuids \cup {Get(doc, K_id, JNull).s}
                    /\ Contains(Get(response', K_body, JNull).s,
                                json_dumps(JStr(K_searchId)) \o T(<<":", " ">>)
                                    \o json_dumps(Get(doc, K_id, JNull)))
      ]_vars

\* Two requests accepted in one process, one by lambda_handler and one by
\* parse_event, both with a searchId of the caller's.
C11_Witness ==
    /\ Cardinality(uuids) = 2
    /\ Len(searchOutputCollection) = 1
    /\ Cardinality(StoredIds) = 1
    /\ parse_ret.called /\ parse_ret.ok
    /\ HasKey(extract_body(parse_in).v, K_searchId)
    /\ parse_ret.req.search_id \in uuids
    /\ JStr(parse_ret.req.search_id) \notin StoredIds

(***************************************************************************)
(* A request that is submitted again after its dispatch failed             *)
(***************************************************************************)

\* The number of times one request is submitted in the model.
MaxAttempts == 2

\* The request that is submitted, by a direct caller and through the gateway.
RetryEvents ==
    {DirectEvent(Payload(JStr(S_x), JStr(S_u1), Absent), Absent),
     GatewayEvent(Payload(JStr(S_find), JStr(S_u1), Absent), Absent,
                  Authorizer(JStr(S_u2)))}

InitRetry ==
    /\ parse_in \in RetryEvents
    /\ parse_ret = NoCall
    /\ environ \in {e \in Environments :
                      /\ Config_load(e).ok
                      /\ e.CORS_ALLOWED_ORIGIN = Unset}
    /\ IdleName
    /\ IdleExec
    /\ IdleHandler
    /\ uuids = {}

\* The caller, told of the WorkflowStartError, submits the same event again:
\* parse_event and start_execution run once more in the same process.
Retry ==
    /\ exec_ret.called /\ ~exec_ret.ok
    /\ exec_ret.err = "WorkflowStartError"
    /\ Len(client_calls) < MaxAttempts
    /\ parse_ret' = NoCall
    /\ exec_ret' = NoCall
    /\ UNCHANGED <<nameVars, parse_in, uuids, environ, client_calls, handlerVars>>

NextRetry == ParseEvent \/ StartExecution \/ Retry

SpecRetry == InitRetry /\ [][NextRetry]_vars

\* The execution name of the i-th call made on the workflow service.
CallName(i) == Get(client_calls[i], K_name, JNull)

\* C12: a request submitted again after a dispatch failure is given a fresh
\* search id and with it an execution name that no earlier attempt of the same
\* user had: the names of the calls made on the workflow service are pairwise
\* different.
C12_RetryNameFresh ==
    \A i, j \in 1..Len(client_calls) : i # j => CallName(i) # CallName(j)

\* What the code keeps: the retry's search id is fresh, and the inputs of the
\* calls, which carry the search ids, are pairwise different.
RetryIdFresh ==
    /\ \A i, j \in 1..Len(client_calls) :
          i # j => Get(client_calls[i], K_input, JNull) # Get(client_calls[j], K_input, JNull)
    /\ (parse_ret.called /\ parse_ret.ok) => parse_ret.req.search_id \in uuids
    /\ Cardinality(uuids) >= Len(client_calls)

(***************************************************************************)
(* A process whose environment changes between invocations                 *)
(***************************************************************************)

\* The number of invocations of the process whose environment changes.
MaxLater == 2

\* The environments of that process: the workflow identifier is not set, is
\* empty, or is the state machine's.
ConfigEnvironments ==
    {e \in Environments :
        /\ e.LOGICAL_SEARCH_STATE_MACHINE_ARN \in {Unset, SetTo(<<>>), SetTo(S_arn)}
        /\ e.EXECUTION_NAME_PREFIX = Unset
        /\ e.CORS_ALLOWED_ORIGIN = Unset}

\* The events of that process: a valid request and one without a query.
ConfigEvents ==
    {DirectEvent(Payload(JStr(S_x), JStr(S_u1), Absent), Absent),
     DirectEvent(Payload(Absent, JStr(S_u1), Absent), Absent)}

\* The calls return, or the workflow service is throttling.
ConfigFates ==
    {AllReturn,
     [AllReturn EXCEPT !.start = [raised |-> "ClientError", msg |-> Msg_throttling,
                                  echo |-> FALSE]]}

\* The module is imported in one of the environments.
InitConfig ==
    /\ environ \in ConfigEnvironments
    /\ STATE_MACHINE_ARN = state_machine_arn_at_import(environ)
    /\ searchOutputCollection = <<>>
    /\ executions = {}
    /\ handler_event = NoCall
    /\ response = NoCall
    /\ effects = <<>>
    /\ invocations = 0
    /\ uuids = {}
    /\ IdleName
    /\ IdleParse
    /\ IdleExec

\* The environment of the running process is changed (os.environ is patched,
\* as src/test_refactored.py does around its calls); the module's globals are
\* not assigned again.
SetEnviron ==
    /\ invocations < MaxLater
    /\ environ' \in ConfigEnvironments \ {environ}
    /\ UNCHANGED <<nameVars, parseVars, uuids, execVars, handlerVars>>

\* One invocation of lambda_handler(event, context) in that process.
InvokeHandler ==
    /\ invocations < MaxLater
    /\ \E ev \in ConfigEvents, uuid \in UuidPool \ uuids, fate \in ConfigFates :
         \E r \in {lambda_handler(ev, STATE_MACHINE_ARN, searchOutputCollection,
                                  uuid, utcnow(invocations), fate)} :
            /\ handler_event' = ev
            /\ response' = r.response
            /\ searchOutputCollection' = r.docs
            /\ executions' = executions \cup r.started
            /\ effects' = r.effects
            /\ uuids' = IF r.drew THEN uuids \cup {uuid} ELSE uuids
    /\ invocations' = invocations + 1
    /\ UNCHANGED <<nameVars, parseVars, execVars, environ, STATE_MACHINE_ARN>>

NextConfig == SetEnviron \/ InvokeHandler

SpecConfig == InitConfig /\ [][NextConfig]_vars

\* C13: a failed load of the configuration is not kept: an invocation made
\* while the environment holds the workflow identifier reads it and dispatches
\* the request it accepts with it, whatever the environment was before.
C13_ConfigReloaded ==
    [][ ( /\ invocations' > invocations
          /\ Config_load(environ).ok
          /\ Len(searchOutputCollection') > Len(searchOutputCollection) ) =>
            /\ \E i \in 1..Len(effects') : effects'[i].call = "start_execution"
            /\ Get(response', K_statusCode, JNull) = JInt(200) =>
                 Get(searchOutputCollection'[Len(searchOutputCollection')],
                     K_stepFunctionsExecutionArn, JNull).t = "str"
      ]_vars

\* What the code keeps: the identifier read when the module was imported is
\* used unchanged by every invocation, and an invocation dispatches exactly
\* when that identifier is not empty.
ImportedArnKept ==
    [][ /\ STATE_MACHINE_ARN' = STATE_MACHINE_ARN
        /\ ( /\ invocations' > invocations
             /\ Len(searchOutputCollection') > Len(searchOutputCollection) ) =>
               ( Truthy(STATE_MACHINE_ARN)
                   <=> \E i \in 1..Len(effects') : effects'[i].call = "start_execution" )
      ]_vars

(***************************************************************************)
(* Bodies encoded in base64                                                *)
(***************************************************************************)

\* The payload of the handler's event whose body is encoded.
EncodedPayload == Payload(JStr(S_x), JStr(S_u1), Absent)

\* The gateway event of a payload with the body encoded, and with the body in
\* plain JSON text.
EncodedEvent(payload, context) ==
    GatewayEvent(JStr(b64encode(utf8_encode(json_dumps(payload)))), JBool(TRUE), context)
PlainEvent(payload, context) == GatewayEvent(JStr(json_dumps(payload)), Absent, context)

\* C14: a gateway event whose body is the base64 of a payload's JSON text,
\* flagged isBase64Encoded, is read as the event with the plain JSON text is:
\* lambda_handler takes the same user id, query and flags from it and goes on
\* to the insert where those are valid.
C14_Base64SameOutcome ==
    Handled =>
        \A context \in {Get(handler_event, K_requestContext, Absent)} :
            handler_event = EncodedEvent(EncodedPayload, context) =>
                /\ handler_input(handler_event)
                     = handler_input(PlainEvent(EncodedPayload, context))
                /\ effects # <<>>

\* The encoded and the plain body of every payload of the model, and the
\* encoded blank bodies.
EncodedPairs ==
    {<<JStr(b64encode(utf8_encode(json_dumps(payload)))), JStr(json_dumps(payload))>> :
        payload \in Payloads}
    \cup {<<JStr(b64encode(blank)), JObj(<<>>)>> : blank \in {<<>>, <<32, 32, 32>>}}

\* The outcome of parse_event is that of the validated event.
ParsedAs(valid) ==
    /\ parse_ret.ok = valid.ok
    /\ parse_ret.err = valid.err
    /\ parse_ret.msg = valid.msg
    /\ parse_ret.ok =>
          /\ parse_ret.req.user_id = valid.req.user_id
          /\ parse_ret.req.query = valid.req.query
          /\ parse_ret.req.flags = valid.req.flags

\* What the code keeps: parse_event gives an encoded body the outcome of the
\* plain body, and a body that is blank once decoded that of an empty object.
Base64ParsedAlike ==
    (/\ parse_ret.called
     /\ Get(parse_in, K_isBase64Encoded, JNull) = JBool(TRUE)) =>
        \A pair \in EncodedPairs :
            Get(parse_in, K_body, JNull) = pair[1] =>
                ParsedAs(validated_event(
                    GatewayEvent(pair[2], Absent,
                                 Get(parse_in, K_requestContext, Absent))))

\* parse_event was given encoded bodies of payloads and an encoded blank body.
Base64ParsedSeen ==
    /\ parse_ret.called
    /\ Get(parse_in, K_isBase64Encoded, JNull) = JBool(TRUE)
    /\ \E pair \in EncodedPairs : Get(parse_in, K_body, JNull) = pair[1] /\ parse_ret.ok

(***************************************************************************)
(* The order of the effects of one invocation                              *)
(***************************************************************************)

\* The events of the invocations whose effects are followed: valid requests,
\* direct and through the gateway, a request without a query and one without
\* a user.
OrderEvents ==
    {DirectEvent(Payload(JStr(S_x), JStr(S_u1), Absent), Absent),
     DirectEvent(Payload(JStr(S_find), JStr(S_u1),
                         JObj(<< <<K_reasoning, JBool(TRUE)>> >>)), Absent),
     DirectEvent(Payload(JStr(S_x), JStr(S_u2), Absent), Absent),
     GatewayEvent(JStr(json_dumps(Payload(JStr(S_x), Absent, Absent))), Absent,
                  Authorizer(JStr(S_u2))),
     GatewayEvent(Payload(JStr(S_find), JStr(S_u1), Absent), Absent, Absent),
     DirectEvent(Payload(Absent, JStr(S_u1), Absent), Absent),
     DirectEvent(Payload(JStr(S_x), Absent, Absent), Absent)}

\* A call on the store that raises, and a call on the workflow service that
\* raises.
StoreRaises ==
    [raised |-> "ServerSelectionTimeoutError", msg |-> Msg_db_timeout, echo |-> FALSE]
ServiceRaises == [raised |-> "ClientError", msg |-> Msg_throttling, echo |-> FALSE]

\* How the calls of an invocation end, by the first call that raises: none,
\* the insert, the start (and then the update that marks the error or not),
\* the update after the start (and then the update that marks the error or not).
OrderFates ==
    {AllReturn,
     [AllReturn EXCEPT !.insert = StoreRaises],
     [AllReturn EXCEPT !.start = ServiceRaises],
     [AllReturn EXCEPT !.start = ServiceRaises, !.mark = StoreRaises],
     [AllReturn EXCEPT !.update = StoreRaises],
     [AllReturn EXCEPT !.update = StoreRaises, !.mark = StoreRaises]}

\* The module is imported where the workflow identifier is the state
\* machine's, is one the service refuses, or is not set.
InitOrder ==
    /\ environ \in {e \in Environments :
                      /\ e.LOGICAL_SEARCH_STATE_MACHINE_ARN
                           \in {SetTo(S_arn), SetTo(<<32>> \o S_arn \o <<10>>), Unset}
                      /\ e.EXECUTION_NAME_PREFIX = Unset
                      /\ e.CORS_ALLOWED_ORIGIN = Unset}
    /\ STATE_MACHINE_ARN = state_machine_arn_at_import(environ)
    /\ searchOutputCollection = <<>>
    /\ executions = {}
    /\ handler_event = NoCall
    /\ response = NoCall
    /\ effects = <<>>
    /\ invocations = 0
    /\ uuids = {}
    /\ IdleName
    /\ IdleParse
    /\ IdleExec

\* One invocation of lambda_handler(event, context) whose calls end as one of
\* the fates says.
HandleWithFate ==
    /\ invocations < MaxInvocations
    /\ \E ev \in OrderEvents, uuid \in {Uuid(h, 1) : h \in 1..MaxUuidHeads} \ uuids,
          fate \in OrderFates :
         \E r \in {lambda_handler(ev, STATE_MACHINE_ARN, searchOutputCollection,
                                  uuid, utcnow(invocations), fate)} :
            /\ handler_event' = ev
            /\ response' = r.response
            /\ searchOutputCollection' = r.docs
            /\ executions' = executions \cup r.started
            /\ effects' = r.effects
            /\ uuids' = IF r.drew THEN uuids \cup {uuid} ELSE uuids
    /\ invocations' = invocations + 1
    /\ UNCHANGED <<nameVars, parseVars, execVars, environ, STATE_MACHINE_ARN>>

NextOrder == HandleWithFate

SpecOrder == InitOrder /\ [][NextOrder]_vars

\* The document the last invocation inserted, and whether its start call
\* raised after the insert had returned.
InsertedDoc == searchOutputCollection[Len(searchOutputCollection)]
StartFailedAfterInsert ==
    /\ Len(effects) >= 2
    /\ effects[1].call = "insert_one" /\ effects[1].raised = ""
    /\ effects[2].call = "start_execution" /\ effects[2].raised # ""

\* The calls of an invocation come in the order insert, start: the insert is
\* the first call, the start the second and only after an insert that
\* returned; a 400 comes with no call, a failed insert with no other call.
EffectsInOrder ==
    /\ \A i \in 1..Len(effects) :
          /\ effects[i].call = "insert_one" => i = 1
          /\ effects[i].call = "start_execution" =>
                i = 2 /\ effects[1].call = "insert_one" /\ effects[1].raised = ""
          /\ effects[i].call = "update_one" => i > 2
    /\ (Handled /\ StatusCode = JInt(400)) => effects = <<>>
    /\ (Len(effects) >= 1 /\ effects[1].raised # "") => Len(effects) = 1

\* C15 as stated: the effects of an invocation come in the order validate,
\* insert, start, and whenever the start call fails after a successful insert
\* the document of the search has status ERROR and the response has success
\* false.
C15_EffectOrderStated ==
    /\ EffectsInOrder
    /\ StartFailedAfterInsert =>
          /\ Get(InsertedDoc, K_status, JNull) = JStr(S_ERROR)
          /\ Get(Body, K_success, JNull) = JBool(FALSE)

\* C15: the effects of an invocation come in the order validate, insert,
\* start; a 400 comes with no insert and no start, a failed insert with no
\* start; whenever the start call fails after a successful insert the handler
\* calls update_one once for the document of the search, which has status
\* ERROR where that call returns and keeps status NEW where it raises, and the
\* response has success false either way.
C15_EffectOrder ==
    /\ EffectsInOrder
    /\ StartFailedAfterInsert =>
          /\ Len(effects) = 3
          /\ effects[3].call = "update_one"
          /\ Get(InsertedDoc, K_id, JNull).s \in uuids
          /\ Get(InsertedDoc, K_status, JNull)
               = (IF effects[3].raised = "" THEN JStr(S_ERROR) ELSE JStr(S_NEW))
          /\ Get(Body, K_success, JNull) = JBool(FALSE)

\* An invocation whose start call raised after the insert, and whose document
\* was marked.
C15_Witness ==
    /\ Handled
    /\ StartFailedAfterInsert
    /\ effects[2].msg = Msg_throttling
    /\ effects[3].raised = ""
    /\ Get(InsertedDoc, K_status, JNull) = JStr(S_ERROR)
    /\ StatusCode = JInt(500)

====
